---- MODULE Spec2Model ----
(***************************************************************************)
(* LighterWebSocketClient (src/lighter_client/src/websocket_client.py) as  *)
(* a state machine.  The client runs on one asyncio event loop: code       *)
(* between two awaits is atomic, and every await is a point where another  *)
(* coroutine may run.  One action of this module is the code from one      *)
(* await to the next.                                                      *)
(*                                                                         *)
(* Coroutines:                                                             *)
(*   - the caller, which awaits each API call before making the next one   *)
(*     (connect, disconnect, subscribe, unsubscribe);                      *)
(*   - the receive tasks started by connect() through asyncio.create_task, *)
(*     each running _receive_messages and, from inside it,                 *)
(*     _handle_disconnection with its own connect() calls.                 *)
(* The transport (the websockets library) and the venue are the            *)
(* environment: open succeeds or raises, a handshake frame arrives or not, *)
(* a connection closes, frames arrive.                                     *)
(***************************************************************************)
EXTENDS Integers, Sequences, FiniteSets, TLC

\* ---------------------------------------------------------------- bounds
MaxTasks == 2
MaxHandles == 2
MaxId == 1
MaxCallback == 2
MaxCallbacks == 3
\* Numbers are decimals with Scale digits after the point, held as a count
\* of units of 10^-Scale; the values given to the formatting operations run
\* from 0 to MaxValue units.
Scale == 3
MaxValue == 2100
\* The values below zero given to the formatting operations go down to
\* -MaxBelow units; tick-size strings have up to MaxTickLen characters.
MaxBelow == 12
MaxTickLen == 6
\* The coroutines that call the precision manager.
MaxCallers == 2

\* ------------------------------------------------------ program constants
max_reconnect_attempts == 5
max_reconnect_delay == 30
initial_reconnect_delay == 1

\* The keys of self.subscriptions in their insertion order.
ChannelTypes == <<"order_book", "trade", "account_all", "ticker">>

\* The channel types the modelled caller uses, by index into ChannelTypes.
CallerTypes == {1, 4}

Tasks == 1..MaxTasks
\* A connect() call runs in a context: 0 is the caller, t is receive task t.
Contexts == 0..MaxTasks
Handles == 1..MaxHandles
None == 0
Identifiers == 1..MaxId
\* The identifiers are strings, here sequences of characters: identifier i
\* is spelled IdentifierNames[i].  The caller of Spec and SpecConn uses the
\* first, the caller of SpecRecv all of them.
IdentifierNames == << <<"7">>, <<"7", ":", "x">> >>
AllIdentifiers == 1..Len(IdentifierNames)
Callbacks == 1..MaxCallback
TypeIdx == 1..Len(ChannelTypes)

VARIABLES
  connected, connecting, reconnecting,  \* self.connected / connecting / reconnecting
  websocket,                            \* self.websocket: a handle or None
  reconnect_attempts, reconnect_delay,  \* self.reconnect_attempts / reconnect_delay
  subscriptions,                        \* self.subscriptions
  hstate,          \* the transport objects: "fresh" (not yet made), "open", "closed"
  cpc, ch,         \* per context: position of its connect()/disconnect(), bound handle
  cit,             \* per context: iterator of _resubscribe_all
  cpend,           \* per context: the subscribe awaiting its send in _resubscribe_all
  upc, uarg, ures, \* the caller: call in flight, its arguments, last returned value
  usent,           \* the caller: frames its call in flight has handed to send()
  tpc, th,         \* per receive task: position, handle of its recv()
  tframe, tcalls,  \* per receive task: frame in hand, callbacks its handler invokes
  tout, traised,   \* per receive task: frames its handler has handed to send(),
                   \* callbacks that raised while it handled the frame in hand
  \* history of the replay, kept by the actions
  resubLog,        \* per context: subscribe frames sent by its _resubscribe_all
  replayQuiet,     \* per context: its _resubscribe_all has run undisturbed so far
  \* history of the calls and of the connection lifecycle, kept by observers
  ulast,           \* what the caller's last call was
  lost,            \* the transports the peer closed before the client did
  slept,           \* per task: the sleeps of its reconnection routine so far
  fatal,           \* a routine has run out of attempts and the caller has
                   \* called no connect() since, nor had one in flight then
  utried,          \* the channel of the caller's last unsubscribe() on a
                   \* client that was not connected, until a connect() that
                   \* got the "connected" frame returns
  \* the precision manager
  symbol_to_market_id,  \* self._symbol_to_market_id
  precision_cache,      \* self._precision_cache
  ppc, psym,       \* per caller: position of its call in flight, its symbol
  pmid,            \* per caller: market_id resolved for the detail lookup
  pres,            \* per caller: what its call returned
  pfail,           \* per caller: how its call in flight came to the default
  pquery,          \* per caller: collaborator calls made by its call in flight
  fout,            \* the last formatting call: operation, arguments, result
  \* history of the cache, kept by the actions
  pfirst,          \* per symbol: the Market its first successful
                   \* get_market_info() since the last refresh_cache() returned
  plisted          \* the listing the last order_books() of get_market_info
                   \* (line 62) or refresh_cache() returned, and whether it
                   \* was to a refresh_cache() that has completed

clientVars == <<connected, connecting, reconnecting, websocket,
                reconnect_attempts, reconnect_delay, subscriptions>>
ctxVars == <<cpc, ch, cit, cpend>>
userVars == <<upc, uarg, usent, ures>>
taskVars == <<tpc, th, tframe, tcalls, tout, traised>>
replayVars == <<resubLog, replayQuiet>>
histVars == <<ulast, lost, slept, fatal, utried>>
wsVars == <<clientVars, hstate, ctxVars, userVars, taskVars, replayVars, histVars>>
cacheVars == <<symbol_to_market_id, precision_cache>>
callVars == <<ppc, psym, pmid, pres, pfail, pquery>>
cacheHist == <<pfirst, plisted>>
pmVars == <<cacheVars, callVars, fout, cacheHist>>
vars == <<wsVars, pmVars>>

\* ------------------------------------------------- the registry (a dict)
\* self.subscriptions[channel_type] is a dict identifier -> list of
\* callbacks: its entries in insertion order.
Used(d) == Len(d)

\* identifier in d
Has(d, i) == \E j \in DOMAIN d : d[j].id = i
SlotOf(d, i) == CHOOSE j \in DOMAIN d : d[j].id = i
\* d.get(identifier, [])
DictGet(d, i) == IF Has(d, i) THEN d[SlotOf(d, i)].cbs ELSE <<>>

\* A removal that drops the last callback of the list only, and the entry
\* with a list that it leaves empty.
DictDelLast(d, i) ==
  IF Len(d[SlotOf(d, i)].cbs) > 1
  THEN [d EXCEPT ![SlotOf(d, i)].cbs = SubSeq(@, 1, Len(@) - 1)]
  ELSE [j \in 1..(Len(d) - 1) |-> IF j < SlotOf(d, i) THEN d[j] ELSE d[j + 1]]

\* del d[identifier]
DictDel(d, i) ==
  [j \in 1..(Len(d) - 1) |-> IF j < SlotOf(d, i) THEN d[j] ELSE d[j + 1]]

\* The number of different callbacks in a list.
Distinct(l) == Cardinality({l[k] : k \in DOMAIN l})

\* The callbacks registered for (channel type index, identifier).
CallbacksOf(subs, ti, i) == DictGet(subs[ti], i)

\* A registration that keeps the new callback alone.
RegisterOnly(d, i, cb) ==
  IF Has(d, i)
  THEN [d EXCEPT ![SlotOf(d, i)].cbs = <<cb>>]
  ELSE Append(d, [id |-> i, cbs |-> <<cb>>])

\* subscribe(), lines 250-254: create the entry if absent, append the callback.
RegisterCallback(d, i, cb) ==
  IF Has(d, i)
  THEN [d EXCEPT ![SlotOf(d, i)].cbs = Append(@, cb)]
  ELSE Append(d, [id |-> i, cbs |-> <<cb>>])

\* The iterator of `for identifier, callbacks in identifiers.items()`
\* (CPython's dictiter): the dict it runs over (ti), the entry it looks at
\* next (pos), the number of entries it still expects (len), the size of the
\* dict when it was made (used).  CPython keeps an index into the entries
\* table, in which a deleted key leaves a dummy; here the deleted entry is
\* removed and an iterator that had passed it moves back by one, which names
\* the same next entry.  (CPython compacts the entries table when an insert
\* resizes the dict; an iterator alive across such a resize is not modelled
\* beyond the size check, and no property below rests on it: a replay whose
\* registry another coroutine changes is not undisturbed.)
NewIter(subs, ti) ==
  [ti |-> ti, pos |-> 1,
   len |-> IF ti \in TypeIdx THEN Used(subs[ti]) ELSE 0,
   used |-> IF ti \in TypeIdx THEN Used(subs[ti]) ELSE 0]
NoIter == [ti |-> 0, pos |-> 0, len |-> 0, used |-> 0]
NoPend == <<0, 0, 0>>
IterAfterDel(it, ti, k) ==
  IF it.ti = ti /\ it.pos > k THEN [it EXCEPT !.pos = @ - 1] ELSE it

Min(S) == CHOOSE x \in S : \A y \in S : x <= y

\* ------------------------------------------------------------ transport
\* self.websocket.send(...) goes through: there is a handle and it is open.
\* With self.websocket None the call raises AttributeError, on a closed
\* connection ConnectionClosed; subscribe, unsubscribe and _handle_ping
\* catch both.
CanSend == websocket # None /\ hstate[websocket] = "open"

\* await self.websocket.close() (line 141), called on handle h.
Close(h) == [hstate EXCEPT ![h] = "closed"]

\* ------------------------------------------------------ _resubscribe_all
\* callbacks[0], line 311.
FirstCallback(cbs) == Head(cbs)

\* Runs the two nested loops from iterator state `it` up to the next await
\* (the send of a subscribe), the end of the loops, or the RuntimeError of a
\* dict changed during iteration.  Between awaits nothing else runs, so the
\* registry, self.connected and the transport are fixed for the whole run.
\* A subscribe that returns False (not connected, or send raised) is followed
\* by the next iteration at once.
RECURSIVE ResubRun(_, _, _, _)
ResubRun(subs, it, conn, cansend) ==
  IF it.ti > Len(ChannelTypes)
  THEN [kind |-> "done", it |-> NoIter, pend |-> NoPend]
  ELSE LET d == subs[it.ti]
           rest == {j \in DOMAIN d : j >= it.pos}
       IN IF it.used # Used(d)
          THEN [kind |-> "error", it |-> NoIter, pend |-> NoPend]
          ELSE IF rest = {}
          THEN ResubRun(subs, NewIter(subs, it.ti + 1), conn, cansend)
          ELSE IF it.len = 0
          THEN [kind |-> "error", it |-> NoIter, pend |-> NoPend]
          ELSE LET j == Min(rest)
                   it2 == [it EXCEPT !.pos = j + 1, !.len = @ - 1]
               IN IF d[j].cbs # <<>> /\ conn /\ cansend
                  THEN [kind |-> "send", it |-> it2,
                        pend |-> <<it.ti, d[j].id, FirstCallback(d[j].cbs)>>]
                  ELSE ResubRun(subs, it2, conn, cansend)

\* The replay of context c is undisturbed by a step: the step is one of its
\* own sends, or it leaves the connection and the registry as they are.
Kept(c) ==
  \/ resubLog'[c] # resubLog[c]
  \/ /\ connected' = connected
     /\ websocket' = websocket
     /\ CanSend' = CanSend
     /\ subscriptions' = subscriptions

\* replayQuiet after a step: a replay is undisturbed when it begins on the
\* connection its connect() opened, and stays so while every step keeps it.
QuietAfter ==
  [c \in Contexts |->
     /\ cpc'[c] = "resub"
     /\ IF cpc[c] = "resub" THEN replayQuiet[c] /\ Kept(c) ELSE websocket = ch[c]]

\* ------------------------------------------------------------- returns
BoolStr(b) == IF b THEN "true" ELSE "false"

\* _handle_disconnection, line 218: exponential backoff.
NextDelay(del) ==
  IF del * 2 < max_reconnect_delay THEN del * 2 ELSE max_reconnect_delay

\* connect() returns r in context c.  att and del are the values of
\* self.reconnect_attempts and self.reconnect_delay and tp the positions of
\* the tasks, as the code before the return left them.
\* For the caller the call is over.  For a receive task the return resumes
\* _handle_disconnection at line 213 and runs it to its next await (the
\* sleep of the next attempt) or to its end, which also ends the task (the
\* break at line 164).
Return(c, r, att, del, tp) ==
  /\ cpc' = [cpc EXCEPT ![c] = "idle"]
  /\ ch' = [ch EXCEPT ![c] = None]
  /\ cit' = [cit EXCEPT ![c] = NoIter]
  /\ cpend' = [cpend EXCEPT ![c] = NoPend]
  /\ resubLog' = [resubLog EXCEPT ![c] = <<>>]
  /\ IF c = 0
     THEN /\ upc' = "idle"
          /\ ures' = BoolStr(r)
          /\ reconnect_attempts' = att
          /\ reconnect_delay' = del
          /\ tpc' = tp
          /\ UNCHANGED reconnecting
     ELSE /\ UNCHANGED <<upc, ures>>
          /\ IF r
             THEN /\ reconnecting' = FALSE
                  /\ reconnect_attempts' = att
                  /\ reconnect_delay' = del
                  /\ tpc' = [tp EXCEPT ![c] = "idle"]
             ELSE IF att < max_reconnect_attempts
             THEN /\ reconnect_attempts' = att + 1
                  /\ reconnect_delay' = NextDelay(del)
                  /\ tpc' = [tp EXCEPT ![c] = "sleep"]
                  /\ UNCHANGED reconnecting
             ELSE /\ reconnecting' = FALSE
                  /\ reconnect_attempts' = att
                  /\ reconnect_delay' = NextDelay(del)
                  /\ tpc' = [tp EXCEPT ![c] = "idle"]

\* The except branches of connect() and its unexpected-response branch:
\* await self.disconnect(); return False.  disconnect() clears the flags and,
\* if there is a handle, awaits its close(); with no handle it is over at
\* once and connect() returns.
Fail(c, tp) ==
  /\ connected' = FALSE
  /\ connecting' = FALSE
  /\ IF websocket # None
     THEN /\ hstate' = Close(websocket)
          /\ cpc' = [cpc EXCEPT ![c] = "closing"]
          /\ ch' = [ch EXCEPT ![c] = websocket]
          /\ cit' = [cit EXCEPT ![c] = NoIter]
          /\ cpend' = [cpend EXCEPT ![c] = NoPend]
          /\ resubLog' = [resubLog EXCEPT ![c] = <<>>]
          /\ tpc' = tp
          /\ UNCHANGED <<websocket, reconnecting, reconnect_attempts,
                         reconnect_delay, upc, ures>>
     ELSE /\ Return(c, FALSE, reconnect_attempts, reconnect_delay, tp)
          /\ UNCHANGED <<websocket, hstate>>

\* ------------------------------------------------------------ connect()
\* A connect() without the check of lines 84-86.
ConnectAnyway(c, tp) ==
  /\ connecting' = TRUE
  /\ reconnecting' = FALSE
  /\ cpc' = [cpc EXCEPT ![c] = "open"]
  /\ tpc' = tp
  /\ upc' = IF c = 0 THEN "connect" ELSE upc
  /\ UNCHANGED <<connected, websocket, hstate, reconnect_attempts,
                 reconnect_delay, ch, cit, cpend, ures, resubLog>>

\* Lines 84-93, up to the await of websockets.connect.
ConnectEnter(c, tp) ==
  IF connected \/ connecting
  THEN /\ Return(c, connected, reconnect_attempts, reconnect_delay, tp)
       /\ UNCHANGED <<connected, connecting, websocket, hstate>>
  ELSE /\ connecting' = TRUE
       /\ reconnecting' = FALSE
       /\ cpc' = [cpc EXCEPT ![c] = "open"]
       /\ tpc' = tp
       /\ upc' = IF c = 0 THEN "connect" ELSE upc
       /\ UNCHANGED <<connected, websocket, hstate, reconnect_attempts,
                      reconnect_delay, ch, cit, cpend, ures, resubLog>>

\* The caller calls connect().
UserConnect ==
  /\ upc = "idle"
  /\ ConnectEnter(0, tpc)
  /\ UNCHANGED <<subscriptions, uarg, usent, th, tframe, tcalls, tout, traised>>
  /\ replayQuiet' = QuietAfter

\* websockets.connect returns a new connection (line 93); the recv() of the
\* handshake wait is called on it at once (line 96).  Every connection is a
\* new object: MaxHandles of them are made in a run, after which every open
\* raises.
OpenOk(c) ==
  /\ cpc[c] = "open"
  /\ \E h \in Handles :
       /\ hstate[h] = "fresh"
       /\ \A g \in Handles : hstate[g] = "fresh" => h <= g
       /\ hstate' = [hstate EXCEPT ![h] = "open"]
       /\ websocket' = h
       /\ ch' = [ch EXCEPT ![c] = h]
  /\ cpc' = [cpc EXCEPT ![c] = "handshake"]
  /\ UNCHANGED <<connected, connecting, reconnecting, reconnect_attempts,
                 reconnect_delay, subscriptions, cit, cpend, userVars,
                 taskVars, resubLog>>
  /\ replayQuiet' = QuietAfter

\* websockets.connect raises (line 124).
OpenFail(c) ==
  /\ cpc[c] = "open"
  /\ Fail(c, tpc)
  /\ UNCHANGED <<subscriptions, uarg, usent, th, tframe, tcalls, tout, traised>>
  /\ replayQuiet' = QuietAfter

\* The handshake wait ends without a "connected" frame: another frame
\* (line 114), the timeout (line 119), a closed connection or a frame that
\* is not JSON (line 124).
HandshakeFail(c, why) ==
  /\ cpc[c] = "handshake"
  /\ \/ why \in {"other", "badjson"} /\ hstate[ch[c]] = "open"
     \/ why = "timeout"
     \/ why = "closed" /\ hstate[ch[c]] = "closed"
  /\ Fail(c, tpc)
  /\ UNCHANGED <<subscriptions, uarg, usent, th, tframe, tcalls, tout, traised>>
  /\ replayQuiet' = QuietAfter

\* The "connected" frame arrives (lines 99-113): flags, counters, the
\* receive task, then _resubscribe_all up to its first await.
HandshakeConnected(c) ==
  /\ cpc[c] = "handshake"
  /\ hstate[ch[c]] = "open"
  /\ \A ti \in TypeIdx : \A j \in DOMAIN subscriptions[ti] :
        Len(subscriptions[ti][j].cbs) < MaxCallbacks
  /\ \E t \in Tasks :
       /\ tpc[t] = "idle"
       /\ \A u \in Tasks : tpc[u] = "idle" => t <= u
       /\ LET tp == [tpc EXCEPT ![t] = "start"]
              run == ResubRun(subscriptions, NewIter(subscriptions, 1), TRUE, CanSend)
          IN /\ connected' = TRUE
             /\ connecting' = FALSE
             /\ IF run.kind = "send"
                THEN /\ cpc' = [cpc EXCEPT ![c] = "resub"]
                     /\ ch' = [ch EXCEPT ![c] = websocket]
                     /\ cit' = [cit EXCEPT ![c] = run.it]
                     /\ cpend' = [cpend EXCEPT ![c] = run.pend]
                     /\ resubLog' = [resubLog EXCEPT ![c] = <<run.pend>>]
                     /\ reconnect_attempts' = 0
                     /\ reconnect_delay' = initial_reconnect_delay
                     /\ tpc' = tp
                     /\ UNCHANGED <<reconnecting, upc, ures>>
                ELSE Return(c, TRUE, 0, initial_reconnect_delay, tp)
  /\ UNCHANGED <<websocket, hstate, subscriptions, th, tframe, tcalls, tout,
                 traised, uarg, usent>>
  /\ replayQuiet' = QuietAfter

\* The send of a subscribe of _resubscribe_all is over (subscribe, lines
\* 247-260).  It went through (ok): the callback is appended.  Or it raised,
\* the transport having been closed meanwhile: subscribe returns False.  Then
\* the loops go on to the next await, to their end (connect returns True) or
\* to the RuntimeError, which connect() catches at line 124.
ResubResume(c, ok) ==
  /\ cpc[c] = "resub"
  /\ ok \/ hstate[ch[c]] = "closed"
  /\ LET subs1 == IF ok
                  THEN [subscriptions EXCEPT
                          ![cpend[c][1]] = RegisterCallback(@, cpend[c][2], cpend[c][3])]
                  ELSE subscriptions
         run == ResubRun(subs1, cit[c], connected, CanSend)
     IN /\ IF run.kind = "send"
           THEN /\ cit' = [cit EXCEPT ![c] = run.it]
                /\ cpend' = [cpend EXCEPT ![c] = run.pend]
                /\ resubLog' = [resubLog EXCEPT ![c] = Append(@, run.pend)]
                /\ ch' = [ch EXCEPT ![c] = websocket]
                /\ UNCHANGED <<connected, connecting, reconnecting, websocket,
                               reconnect_attempts, reconnect_delay, hstate,
                               cpc, upc, ures, tpc>>
           ELSE IF run.kind = "done"
           THEN /\ Return(c, TRUE, reconnect_attempts, reconnect_delay, tpc)
                /\ UNCHANGED <<connected, connecting, websocket, hstate>>
           ELSE Fail(c, tpc)
        /\ subscriptions' = subs1
  /\ UNCHANGED <<uarg, usent, th, tframe, tcalls, tout, traised>>
  /\ replayQuiet' = QuietAfter

\* The close() awaited by the disconnect() of a failed connect() is over:
\* self.websocket = None (line 146), then connect() returns False.
CloseDone(c) ==
  /\ cpc[c] = "closing"
  /\ websocket' = None
  /\ Return(c, FALSE, reconnect_attempts, reconnect_delay, tpc)
  /\ UNCHANGED <<connected, connecting, subscriptions, hstate, uarg, usent, th,
                 tframe, tcalls, tout, traised>>
  /\ replayQuiet' = QuietAfter

\* ---------------------------------------------------------- disconnect()
\* The caller calls disconnect(), lines 136-141: the flags are cleared and,
\* if there is a handle, its close() is awaited.
UserDisconnect ==
  /\ upc = "idle"
  /\ connected' = FALSE
  /\ connecting' = FALSE
  /\ IF websocket # None
     THEN /\ hstate' = Close(websocket)
          /\ ch' = [ch EXCEPT ![0] = websocket]
          /\ upc' = "disconnect"
          /\ UNCHANGED ures
     ELSE /\ ures' = "none"
          /\ UNCHANGED <<hstate, ch, upc>>
  /\ UNCHANGED <<reconnecting, websocket, reconnect_attempts, reconnect_delay,
                 subscriptions, cpc, cit, cpend, taskVars, resubLog,
                 uarg, usent>>
  /\ replayQuiet' = QuietAfter

\* The close() is over: self.websocket = None (line 146).
UserDisconnectDone ==
  /\ upc = "disconnect"
  /\ websocket' = None
  /\ ch' = [ch EXCEPT ![0] = None]
  /\ upc' = "idle"
  /\ ures' = "none"
  /\ UNCHANGED <<connected, connecting, reconnecting, reconnect_attempts,
                 reconnect_delay, subscriptions, hstate, cpc, cit, cpend,
                 uarg, usent, taskVars, resubLog>>
  /\ replayQuiet' = QuietAfter

\* ------------------------------------------- subscribe() / unsubscribe()
\* f"{channel_type}/{identifier}" (lines 238 and 282): the parts of the
\* string, in order.
OutChannel(ti, i) == <<ChannelTypes[ti], "/">> \o IdentifierNames[i]

\* A subscribe frame with a colon in its channel, as inbound frames have.
SubscribeMsgColon(ti, i) ==
  [type |-> "subscribe",
   channel |-> <<ChannelTypes[ti], ":">> \o IdentifierNames[i]]

\* subscribe_msg, lines 241-244, and unsubscribe_msg, lines 285-288.
SubscribeMsg(ti, i) == [type |-> "subscribe", channel |-> OutChannel(ti, i)]
UnsubscribeMsg(ti, i) == [type |-> "unsubscribe", channel |-> OutChannel(ti, i)]

\* A frame handed to the send() of transport h.
Sent(h, msg) == [h |-> h, msg |-> msg]

\* The channel-type strings the modelled caller passes: two supported ones
\* (those of CallerTypes) and one that is not.
InputTypes == {"order_book", "ticker", "depth"}

\* channel_type in self.subscriptions (lines 230 and 269).
Supported(name) == \E ti \in TypeIdx : ChannelTypes[ti] = name

\* A subscribe() that sends whenever there is an open handle, without the
\* check of self.connected.
UserSubscribeUnchecked(ti, i, cb) ==
  /\ upc = "idle"
  /\ cb = Distinct(CallbacksOf(subscriptions, ti, i)) + 1
  /\ Len(CallbacksOf(subscriptions, ti, i)) < MaxCallbacks
  /\ IF CanSend
     THEN /\ upc' = "subscribe"
          /\ uarg' = <<ti, i, cb>>
          /\ usent' = <<Sent(websocket, SubscribeMsg(ti, i))>>
          /\ ch' = [ch EXCEPT ![0] = websocket]
          /\ UNCHANGED ures
     ELSE /\ ures' = "false"
          /\ UNCHANGED <<upc, uarg, usent, ch>>
  /\ UNCHANGED <<clientVars, hstate, cpc, cit, cpend, taskVars, resubLog>>
  /\ replayQuiet' = QuietAfter

\* A subscribe() that checks the connection before the channel type.
SubscribeRejectsConnected(conn) ==
  IF conn THEN "raised_subscribe" ELSE "false"

\* What subscribe() does with an unsupported channel type, lines 230-231:
\* it raises WebSocketClientError, whatever self.connected (conn) is.
SubscribeRejects(conn) == "raised_subscribe"

\* The caller calls subscribe() with an unsupported channel type.
UserSubscribeUnsupported(name, i, cb) ==
  /\ upc = "idle"
  /\ ~Supported(name)
  /\ ures' = SubscribeRejects(connected)
  /\ UNCHANGED <<clientVars, hstate, ctxVars, upc, taskVars, resubLog,
                 uarg, usent>>
  /\ replayQuiet' = QuietAfter

\* The caller calls subscribe() with a supported channel type, lines
\* 233-247: it returns False when not connected or when the send raises,
\* else it awaits the send.  Callbacks are interchangeable, so the caller
\* names them in order: the first one it registers on a channel is callback
\* 1, the next new one callback 2.
UserSubscribe(ti, i, cb) ==
  /\ upc = "idle"
  /\ cb = Distinct(CallbacksOf(subscriptions, ti, i)) + 1
  /\ Len(CallbacksOf(subscriptions, ti, i)) < MaxCallbacks
  /\ IF connected /\ CanSend
     THEN /\ upc' = "subscribe"
          /\ uarg' = <<ti, i, cb>>
          /\ usent' = <<Sent(websocket, SubscribeMsg(ti, i))>>
          /\ ch' = [ch EXCEPT ![0] = websocket]
          /\ UNCHANGED ures
     ELSE /\ ures' = "false"
          /\ UNCHANGED <<upc, uarg, usent, ch>>
  /\ UNCHANGED <<clientVars, hstate, cpc, cit, cpend, taskVars, resubLog>>
  /\ replayQuiet' = QuietAfter

\* The send is over.  It went through (ok): the callback is registered,
\* lines 248-256.  Or it raised, the transport having been closed meanwhile
\* (lines 258-260).
UserSubscribeDone(ok) ==
  /\ upc = "subscribe"
  /\ ok \/ hstate[ch[0]] = "closed"
  /\ subscriptions' =
       IF ok
       THEN [subscriptions EXCEPT ![uarg[1]] = RegisterCallback(@, uarg[2], uarg[3])]
       ELSE subscriptions
  /\ upc' = "idle"
  /\ uarg' = NoPend
  /\ usent' = <<>>
  /\ ch' = [ch EXCEPT ![0] = None]
  /\ ures' = BoolStr(ok)
  /\ UNCHANGED <<connected, connecting, reconnecting, websocket,
                 reconnect_attempts, reconnect_delay, hstate, cpc, cit, cpend,
                 taskVars, resubLog>>
  /\ replayQuiet' = QuietAfter

\* The caller calls unsubscribe() with a supported channel type, lines
\* 272-291.
UserUnsubscribeUnsupported(name, i) ==
  /\ upc = "idle"
  /\ ~Supported(name)
  /\ ures' = "raised_unsubscribe"
  /\ UNCHANGED <<clientVars, hstate, ctxVars, upc, taskVars, resubLog,
                 uarg, usent>>
  /\ replayQuiet' = QuietAfter

\* The caller calls unsubscribe() with a supported channel type, lines
\* 272-291: it returns False when not connected, when the identifier has no
\* entry or when the send raises at once, else it awaits the send.
UserUnsubscribe(ti, i) ==
  /\ upc = "idle"
  /\ IF connected /\ Has(subscriptions[ti], i) /\ CanSend
     THEN /\ upc' = "unsubscribe"
          /\ uarg' = <<ti, i, 0>>
          /\ usent' = <<Sent(websocket, UnsubscribeMsg(ti, i))>>
          /\ ch' = [ch EXCEPT ![0] = websocket]
          /\ UNCHANGED ures
     ELSE /\ ures' = "false"
          /\ UNCHANGED <<upc, uarg, usent, ch>>
  /\ UNCHANGED <<clientVars, hstate, cpc, cit, cpend, taskVars, resubLog>>
  /\ replayQuiet' = QuietAfter

\* The send is over.  It went through (ok), lines 292-297: the entry is
\* deleted; a missing key raises KeyError, which is caught.  Or it raised,
\* the transport having been closed meanwhile (lines 299-301).
UserUnsubscribeDone(ok) ==
  /\ upc = "unsubscribe"
  /\ ok \/ hstate[ch[0]] = "closed"
  /\ IF ok /\ Has(subscriptions[uarg[1]], uarg[2])
     THEN /\ subscriptions' =
               [subscriptions EXCEPT ![uarg[1]] = DictDel(@, uarg[2])]
          /\ cit' = [c \in Contexts |->
                      IterAfterDel(cit[c], uarg[1],
                                   SlotOf(subscriptions[uarg[1]], uarg[2]))]
          /\ ures' = "true"
     ELSE /\ ures' = "false"
          /\ UNCHANGED <<subscriptions, cit>>
  /\ upc' = "idle"
  /\ uarg' = NoPend
  /\ usent' = <<>>
  /\ ch' = [ch EXCEPT ![0] = None]
  /\ UNCHANGED <<connected, connecting, reconnecting, websocket,
                 reconnect_attempts, reconnect_delay, hstate, cpc, cpend,
                 taskVars, resubLog>>
  /\ replayQuiet' = QuietAfter

\* ------------------------------------------------------ the receive task
\* An inbound frame, decoded by json.loads (line 178): kind and ti are its
\* type, "ping", "pong", or "subscribed/<ChannelTypes[ti]>" and
\* "update/<ChannelTypes[ti]>"; channel is its channel field, as the venue
\* writes it for identifier id: "<channel_type>:<identifier>".
InChannel(ti, i) == <<ChannelTypes[ti], ":">> \o IdentifierNames[i]
Frame(kind, ti, i) ==
  [kind |-> kind, ti |-> ti, id |-> i, channel |-> InChannel(ti, i)]
PingFrame == [kind |-> "ping", ti |-> 0, id |-> 0, channel |-> <<>>]
PongFrame == [kind |-> "pong", ti |-> 0, id |-> 0, channel |-> <<>>]
NoFrame == [kind |-> "none", ti |-> 0, id |-> 0, channel |-> <<>>]
\* A frame that is not JSON: json.loads raises (line 178).
BadJsonFrame == [kind |-> "badjson", ti |-> 0, id |-> 0, channel |-> <<>>]
\* A frame whose type has no entry in self.message_handlers (line 182), for
\* example "update/depth"; its channel field names the caller's first
\* channel.
UnknownFrame == [kind |-> "unknown", ti |-> 1, id |-> 1, channel |-> InChannel(1, 1)]

\* The frames of Spec: a ping, or an update for a channel of the caller.
Frames ==
  {PingFrame} \cup
  {Frame("update", ti, i) : ti \in CallerTypes, i \in Identifiers}

\* The frames of SpecRecv: ping, pong, a frame that is not JSON, a frame of
\* an unknown type, and the subscribed and update frames of the channels of
\* its caller, who uses one channel type, and of a channel type nobody
\* subscribes to.
RecvCallerTypes == {1}
RecvTypes == RecvCallerTypes \cup {2}
AllFrames ==
  {PingFrame, PongFrame, BadJsonFrame, UnknownFrame} \cup
  {Frame(kind, ti, i) : kind \in {"subscribed", "update"}, ti \in RecvTypes,
                        i \in AllIdentifiers}

\* str.split(sep): the pieces of s between the separators.
RECURSIVE Split(_, _)
Split(s, sep) ==
  IF \A k \in DOMAIN s : s[k] # sep
  THEN <<s>>
  ELSE LET k == Min({j \in DOMAIN s : s[j] = sep})
       IN <<SubSeq(s, 1, k - 1)>> \o Split(SubSeq(s, k + 1, Len(s)), sep)

\* A lookup that hands the list over last callback first.
DictGetNamedReversed(d, name) ==
  IF \E j \in DOMAIN d : IdentifierNames[d[j].id] = name
  THEN LET l == d[CHOOSE j \in DOMAIN d : IdentifierNames[d[j].id] = name].cbs
       IN [k \in 1..Len(l) |-> l[Len(l) + 1 - k]]
  ELSE <<>>

\* d.get(key, []) for a key given by its spelling.
DictGetNamed(d, name) ==
  IF \E j \in DOMAIN d : IdentifierNames[d[j].id] = name
  THEN d[CHOOSE j \in DOMAIN d : IdentifierNames[d[j].id] = name].cbs
  ELSE <<>>

\* A dispatch that goes by the channel field alone, whatever the type.
DispatchByChannel(subs, f) ==
  IF \E k \in DOMAIN f.channel : f.channel[k] = ":"
  THEN DictGetNamed(subs[f.ti], Split(f.channel, ":")[2])
  ELSE <<>>

\* The list a subscribed or update handler iterates (lines 334-340 and
\* 349-353, the same in the eight handlers): the handler of the frame's type
\* looks in its own channel type's dict for channel.split(':')[1].
Dispatch(subs, f) ==
  IF /\ f.kind \in {"subscribed", "update"}
     /\ \E k \in DOMAIN f.channel : f.channel[k] = ":"
  THEN DictGetNamed(subs[f.ti], Split(f.channel, ":")[2])
  ELSE <<>>

\* The event tag a handler passes to the callbacks (lines 342 and 356).
EventTag(f) == IF f.kind = "subscribed" THEN "subscribed" ELSE "update"

\* A loop over the callbacks that ends at the first one that raises.
InvokedUntilRaise(cbs, r) ==
  IF \A k \in DOMAIN cbs : cbs[k] \notin r
  THEN cbs
  ELSE SubSeq(cbs, 1, Min({k \in DOMAIN cbs : cbs[k] \in r}))

\* The callbacks the loop of lines 353-359 invokes, in order, when those of
\* r raise: each call has its own try/except, so all of them.
Invoked(cbs, r) == cbs

\* The keepalive reply (line 322).
PongMsg == [type |-> "pong"]

\* What a handler hands to send(): _handle_ping one pong on self.websocket
\* (line 323), which raises with no handle or a closed one (caught at line
\* 325); the other handlers nothing.
HandlePing(f) ==
  IF f.kind = "ping" /\ CanSend THEN <<Sent(websocket, PongMsg)>> ELSE <<>>

\* The while condition of _receive_messages (line 155) and the call of
\* recv() on the handle self.websocket names at that moment (line 157).
LoopHead(t) ==
  IF connected /\ websocket # None
  THEN /\ tpc' = [tpc EXCEPT ![t] = "recv"]
       /\ th' = [th EXCEPT ![t] = websocket]
  ELSE /\ tpc' = [tpc EXCEPT ![t] = "idle"]
       /\ th' = [th EXCEPT ![t] = None]

\* The task created at line 108 gets to run.
TaskStart(t) ==
  /\ tpc[t] = "start"
  /\ LoopHead(t)
  /\ UNCHANGED <<clientVars, hstate, ctxVars, userVars, tframe, tcalls, tout,
                 traised, resubLog>>
  /\ replayQuiet' = QuietAfter

\* recv() returns a frame (line 157); _process_message finds its handler
\* (lines 178-184), which runs up to the end of its last await: a ping
\* handler has handed its pong to send(), a subscribed or update handler has
\* invoked its callbacks, of which those of r raised.
RecvFrame(t, f, r) ==
  /\ tpc[t] = "recv"
  /\ hstate[th[t]] = "open"
  /\ \A cb \in r : \E k \in DOMAIN Dispatch(subscriptions, f) :
                      Dispatch(subscriptions, f)[k] = cb
  /\ tpc' = [tpc EXCEPT ![t] = "proc"]
  /\ th' = [th EXCEPT ![t] = None]
  /\ tframe' = [tframe EXCEPT ![t] = f]
  /\ tcalls' = [tcalls EXCEPT ![t] = Invoked(Dispatch(subscriptions, f), r)]
  /\ traised' = [traised EXCEPT ![t] = r]
  /\ tout' = [tout EXCEPT ![t] = HandlePing(f)]
  /\ UNCHANGED <<clientVars, hstate, ctxVars, userVars, resubLog>>
  /\ replayQuiet' = QuietAfter

\* The handler is over (lines 170-191); back to the loop head.
ProcFrame(t) ==
  /\ tpc[t] = "proc"
  /\ tframe' = [tframe EXCEPT ![t] = NoFrame]
  /\ tcalls' = [tcalls EXCEPT ![t] = <<>>]
  /\ traised' = [traised EXCEPT ![t] = {}]
  /\ tout' = [tout EXCEPT ![t] = <<>>]
  /\ LoopHead(t)
  /\ UNCHANGED <<clientVars, hstate, ctxVars, userVars, resubLog>>
  /\ replayQuiet' = QuietAfter

\* recv() raises ConnectionClosed (lines 160-164), then
\* _handle_disconnection runs to its first sleep (lines 200-210), or returns
\* at once.
RecvClosed(t) ==
  /\ tpc[t] = "recv"
  /\ hstate[th[t]] = "closed"
  /\ connected' = FALSE
  /\ th' = [th EXCEPT ![t] = None]
  /\ IF reconnecting
     THEN /\ tpc' = [tpc EXCEPT ![t] = "idle"]
          /\ UNCHANGED <<reconnecting, reconnect_attempts>>
     ELSE IF reconnect_attempts < max_reconnect_attempts
     THEN /\ reconnecting' = TRUE
          /\ reconnect_attempts' = reconnect_attempts + 1
          /\ tpc' = [tpc EXCEPT ![t] = "sleep"]
     ELSE /\ reconnecting' = FALSE
          /\ tpc' = [tpc EXCEPT ![t] = "idle"]
          /\ UNCHANGED reconnect_attempts
  /\ UNCHANGED <<connecting, websocket, reconnect_delay, subscriptions, hstate,
                 ctxVars, userVars, tframe, tcalls, tout, traised, resubLog>>
  /\ replayQuiet' = QuietAfter

\* The sleep of line 210 is over: connect() is called (line 213).
SleepDone(t) ==
  /\ tpc[t] = "sleep"
  /\ ConnectEnter(t, [tpc EXCEPT ![t] = "connect"])
  /\ UNCHANGED <<subscriptions, uarg, usent, th, tframe, tcalls, tout, traised>>
  /\ replayQuiet' = QuietAfter

\* ----------------------------------------------------------- environment
\* The venue or the network closes a connection.
TransportClose(h) ==
  /\ hstate[h] = "open"
  /\ hstate' = Close(h)
  /\ UNCHANGED <<clientVars, ctxVars, userVars, taskVars, resubLog>>
  /\ replayQuiet' = QuietAfter

\* ------------------------------------------------------------- observers
\* The history of the connection lifecycle is kept by observers: an observer
\* is conjoined to an action, reads the step the action takes and sets the
\* history variables, and nothing else.

\* No history is kept.
Unobserved == UNCHANGED <<histVars, pmVars>>

\* What a reconnection routine has slept so far: n sleeps, the last one of
\* d seconds.  It is kept for a routine begun by the loss of the transport,
\* as long as every connect() since the routine began has failed, and is
\* NoSleep otherwise.
NoSleep == [n |-> 0, d |-> 0]
Logged(s, d) == IF s = NoSleep THEN NoSleep ELSE [n |-> s.n + 1, d |-> d]

\* The caller makes a call of the given kind.
ObsCall(kind) ==
  /\ ulast' = kind
  /\ UNCHANGED <<lost, slept, fatal, utried, pmVars>>

\* The caller calls connect(): a call that finds the client connected or
\* connecting, or one that goes on to open a transport.
ObsConnect ==
  /\ ulast' = IF connected \/ connecting THEN "connect_noop" ELSE "connect"
  /\ fatal' = FALSE
  /\ UNCHANGED <<lost, slept, utried, pmVars>>

\* The caller calls disconnect(): while connected, else while a routine is in
\* its backoff sleep, else while a connect() is in flight (it awaits the
\* open or the handshake frame), else in another state.
ObsDisconnect ==
  /\ ulast' = IF connected THEN "disc_connected"
              ELSE IF \E t \in Tasks : tpc[t] = "sleep" THEN "disc_backoff"
              ELSE IF \E c \in Contexts : cpc[c] \in {"open", "handshake"}
              THEN "disc_connecting"
              ELSE "disc_other"
  /\ UNCHANGED <<lost, slept, fatal, utried, pmVars>>

\* The peer closes transport h.
ObsLoss(h) ==
  /\ lost' = lost \cup {h}
  /\ UNCHANGED <<ulast, slept, fatal, utried, pmVars>>

\* The sleep log of task t after a step of task t: a routine begun by the
\* loss of the transport starts a log, a further sleep extends it, the end of
\* the routine clears it.
SleptAfter(t) ==
  IF tpc[t] = "recv"
  THEN IF tpc'[t] = "sleep" /\ th[t] \in lost
       THEN [n |-> 1, d |-> reconnect_delay'] ELSE NoSleep
  ELSE IF tpc'[t] = "sleep" /\ reconnect_attempts' = reconnect_attempts + 1
  THEN Logged(slept[t], reconnect_delay')
  ELSE IF tpc'[t] = "idle" THEN NoSleep ELSE slept[t]

\* A step of the routine of task t; exhausted tells whether the step ends
\* the routine with its attempts exhausted.
ObsRoutine(t, exhausted) ==
  /\ slept' = [slept EXCEPT ![t] = SleptAfter(t)]
  /\ fatal' = (fatal \/ (exhausted /\ upc # "connect"))
  /\ UNCHANGED <<ulast, lost, utried, pmVars>>

\* A step of a connect() that fails, in context c: in a routine that ends
\* with this step, the attempts are exhausted.
ObsFail(c) ==
  IF c = 0 THEN Unobserved ELSE ObsRoutine(c, tpc'[c] = "idle")

\* Task t wakes up and calls connect(): if the call returns at once, it
\* returns self.connected.
\* The call is a new connect(): a disconnect() made while a connect() was in
\* flight is no longer the last call on the client.
ObsSleepDone(t) ==
  /\ slept' = [slept EXCEPT ![t] = SleptAfter(t)]
  /\ fatal' = (fatal \/ (tpc'[t] = "idle" /\ ~connected /\ upc # "connect"))
  /\ ulast' = IF ulast = "disc_connecting" THEN "disc_other" ELSE ulast
  /\ UNCHANGED <<lost, utried, pmVars>>

\* Task t observes a closure: if no routine is running and the task ends,
\* the attempts were exhausted already.
ObsRecvClosed(t) == ObsRoutine(t, tpc'[t] = "idle" /\ ~reconnecting)

\* The caller calls unsubscribe(channel ti, identifier i): a call on a
\* client that is not connected is remembered with its channel.
NoTry == <<0, 0>>
ObsTry(ti, i) ==
  /\ ulast' = "unsubscribe"
  /\ utried' = IF connected THEN utried ELSE <<ti, i>>
  /\ UNCHANGED <<lost, slept, fatal, pmVars>>

\* A step of the connect() of context c after its "connected" frame: when
\* the call returns with it, the remembered unsubscribe() is forgotten.
ObsReplay(c) ==
  /\ utried' = IF cpc'[c] = "idle" THEN NoTry ELSE utried
  /\ UNCHANGED <<ulast, lost, slept, fatal, pmVars>>

\* A connect() succeeds.
ObsSuccess ==
  /\ slept' = [u \in Tasks |-> NoSleep]
  /\ UNCHANGED <<ulast, lost, fatal, utried, pmVars>>

(***************************************************************************)
(* PrecisionManager (src/lighter_client/src/precision_manager.py).         *)
(***************************************************************************)
\* ------------------------------------------------------- decimal strings
Unit == 10 ^ Scale
DigitChars == <<"0", "1", "2", "3", "4", "5", "6", "7", "8", "9">>

\* The nearest integer to num / den, a tie going to the even one: what
\* round() and the 'f' format do with a binary float that is exactly the
\* decimal it stands for.
RoundHalfEven(num, den) ==
  LET q == num \div den
      r == num % den
  IN IF 2 * r < den THEN q
     ELSE IF 2 * r > den THEN q + 1
     ELSE IF q % 2 = 0 THEN q ELSE q + 1

\* The decimal digits of n >= 0.
RECURSIVE Digits(_)
Digits(n) ==
  IF n < 10 THEN <<DigitChars[n + 1]>>
  ELSE Digits(n \div 10) \o <<DigitChars[(n % 10) + 1]>>

\* The last p decimal digits of m, with leading zeros.
RECURSIVE FracDigits(_, _)
FracDigits(m, p) ==
  IF p = 0 THEN <<>>
  ELSE FracDigits(m \div 10, p - 1) \o <<DigitChars[(m % 10) + 1]>>

\* f"{x:.{p}f}" for x = v units: the sign of x when x < 0, then |x| rounded
\* to p decimals, with a point and p digits after it when p > 0.
FormatFixed(v, p) ==
  LET a == IF v < 0 THEN -v ELSE v
      n == RoundHalfEven(a * (10 ^ p), Unit)
      sign == IF v < 0 THEN <<"-">> ELSE <<>>
  IN IF p = 0 THEN sign \o Digits(n)
     ELSE sign \o Digits(n \div (10 ^ p)) \o <<".">>
            \o FracDigits(n % (10 ^ p), p)

\* str.rstrip(c).
RECURSIVE RStrip(_, _)
RStrip(s, c) ==
  IF s # <<>> /\ s[Len(s)] = c THEN RStrip(SubSeq(s, 1, Len(s) - 1), c) ELSE s

\* A strip of the zeros that leaves the point.
StripZerosOnly(s) ==
  IF \E k \in DOMAIN s : s[k] = "." THEN RStrip(s, "0") ELSE s

\* formatted.rstrip('0').rstrip('.') if '.' in formatted else formatted
\* (lines 264 and 286).
StripFormatted(s) ==
  IF \E k \in DOMAIN s : s[k] = "." THEN RStrip(RStrip(s, "0"), ".") ELSE s

\* A count of the digits after the point with the trailing zeros left in.
ExtractPrecisionUnstripped(tick_size) ==
  IF \A k \in DOMAIN tick_size : tick_size[k] # "."
  THEN 0
  ELSE Len(Split(tick_size, ".")[2])

\* _extract_precision, lines 214-219.
ExtractPrecision(tick_size) ==
  IF \A k \in DOMAIN tick_size : tick_size[k] # "."
  THEN 0
  ELSE Len(RStrip(Split(tick_size, ".")[2], "0"))

\* ------------------------------------------------------------ parsing
\* int() of a string of digits.
RECURSIVE NatOf(_)
NatOf(s) ==
  IF s = <<>> THEN 0
  ELSE NatOf(SubSeq(s, 1, Len(s) - 1)) * 10
         + (CHOOSE d \in 0..9 : DigitChars[d + 1] = s[Len(s)])

\* float(s) succeeds: digits with at most one point (the strings the venue
\* sends have no sign and no exponent).
IsFloat(s) ==
  /\ \E k \in DOMAIN s : s[k] # "."
  /\ \A k \in DOMAIN s : s[k] = "." \/ \E d \in 1..10 : DigitChars[d] = s[k]
  /\ Cardinality({k \in DOMAIN s : s[k] = "."}) <= 1

\* float(s), in units.
FloatOf(s) ==
  LET parts == Split(s, ".")
      frac == IF Len(parts) = 2 THEN parts[2] ELSE <<>>
  IN NatOf(parts[1]) * Unit + RoundHalfEven(NatOf(frac) * Unit, 10 ^ Len(frac))

\* --------------------------------------------------- the venue's markets
\* An order book of the listing: the attributes _parse_market_info reads.
\* The amounts are chosen off the rounding ties of their precisions, where
\* the binary value of a float decides and the decimal does not.
\* market_symbol is an attribute the venue's order books may lack.
Absent == <<>>
EthBook ==
  [symbol |-> <<"ETH">>, market_id |-> 0, market_symbol |-> Absent,
   market_type |-> "perp", status |-> "active",
   supported_price_decimals |-> 2, supported_size_decimals |-> 4,
   min_base_amount |-> <<"0", ".", "0", "0", "5">>,
   min_quote_amount |-> <<"1", "0", ".", "0">>,
   taker_fee |-> <<"0", ".", "0", "0", "0", "0">>,
   maker_fee |-> <<"0", ".", "0", "0", "0", "0">>]
SolBook ==
  [symbol |-> <<"SOL">>, market_id |-> 1,
   market_symbol |-> <<"SOL", "/", "USDT">>,
   market_type |-> "perp", status |-> "active",
   supported_price_decimals |-> 0, supported_size_decimals |-> 1,
   min_base_amount |-> <<"0", ".", "0", "6", "0">>,
   min_quote_amount |-> <<"1", "0", ".", "0">>,
   taker_fee |-> <<"0", ".", "0", "0", "0", "0">>,
   maker_fee |-> <<"0", ".", "0", "0", "0", "0">>]
\* A market listed under the symbol 'SOL-USDT' itself.
SolUsdtBook ==
  [SolBook EXCEPT !.symbol = <<"SOL", "-", "USDT">>, !.market_id = 2,
                  !.market_symbol = Absent,
                  !.supported_price_decimals = 3,
                  !.supported_size_decimals = 2,
                  !.min_base_amount = <<"0", ".", "0", "1">>]
\* The SOL order book with an amount that is no number.
SolBad == [SolBook EXCEPT !.min_base_amount = <<"-">>]

\* What order_books() may return: a listing, or it raises.
Listings ==
  {<<EthBook, SolBook>>, <<EthBook>>, <<SolBad, EthBook>>,
   <<EthBook, SolBook, SolUsdtBook>>}
BooksReplies ==
  {[ok |-> TRUE, order_books |-> l] : l \in Listings}
    \cup {[ok |-> FALSE, order_books |-> <<>>]}

\* What order_book_details(market_id) may return: the market's details, an
\* object with none of the attributes _parse_market_details reads, or it
\* raises.
DetailOf(m) ==
  [ok |-> TRUE,
   has |-> {"symbol", "market_id", "tick_size", "step_size", "min_order_size"},
   symbol |-> IF m = 0 THEN <<"ETH">> ELSE <<"SOL">>, market_id |-> m,
   tick_size |-> IF m = 0 THEN <<"0", ".", "0", "1">> ELSE <<"1">>,
   step_size |-> IF m = 0 THEN <<"0", ".", "0", "0", "0", "1">>
                 ELSE <<"0", ".", "1", "0">>,
   min_order_size |-> IF m = 0 THEN <<"0", ".", "0", "0", "5">>
                      ELSE <<"0", ".", "0", "6", "0">>]
DetailsReplies(m) ==
  {DetailOf(m), [DetailOf(m) EXCEPT !.has = {}], [DetailOf(m) EXCEPT !.ok = FALSE]}

\* getattr(obj, name, default) on a details object.
GetAttr(d, name, default) == IF name \in d.has THEN d[name] ELSE default

\* The symbols the callers ask for.
Symbols == {<<"ETH">>, <<"SOL">>, <<"SOL", "-", "USDT">>}
Callers == 1..MaxCallers

\* '-' in symbol.
HasDash(symbol) == \E k \in DOMAIN symbol : symbol[k] = "-"

\* A default Market that leaves the per-symbol table out.
GetDefaultPrecisionNoTable(symbol) ==
  [symbol |-> symbol,
   market_id |-> 0,
   base_asset |-> Split(symbol, "-")[1],
   quote_asset |-> IF HasDash(symbol) THEN Split(symbol, "-")[2] ELSE <<"USDT">>,
   price_precision |-> 2,
   quantity_precision |-> 4,
   min_quantity |-> Unit \div 1000,
   min_notional |-> 10 * Unit]

\* _get_default_precision, lines 221-248.
GetDefaultPrecision(symbol) ==
  LET precision ==
        IF symbol = <<"BTC", "-", "USDT">> THEN [price |-> 2, quantity |-> 6]
        ELSE IF symbol = <<"ETH", "-", "USDT">> THEN [price |-> 2, quantity |-> 4]
        ELSE IF symbol = <<"SOL", "-", "USDT">> THEN [price |-> 3, quantity |-> 2]
        ELSE [price |-> 2, quantity |-> 4]
  IN [symbol |-> symbol,
      market_id |-> 0,
      base_asset |-> Split(symbol, "-")[1],
      quote_asset |-> IF HasDash(symbol) THEN Split(symbol, "-")[2] ELSE <<"USDT">>,
      price_precision |-> precision.price,
      quantity_precision |-> precision.quantity,
      min_quantity |-> Unit \div 1000,
      min_notional |-> 10 * Unit]

\* _parse_market_info raises: a float() of lines 177-181 fails.
ParseRaises(order_book) ==
  \/ ~IsFloat(order_book.min_base_amount)
  \/ ~IsFloat(order_book.min_quote_amount)
  \/ ~IsFloat(order_book.taker_fee)
  \/ ~IsFloat(order_book.maker_fee)

\* _parse_market_info, lines 135-184 (the asset ids, which no operation
\* reads, are left out).
ParseMarketInfo(order_book) ==
  [symbol |-> order_book.symbol,
   market_id |-> order_book.market_id,
   market_type |-> order_book.market_type,
   base_asset |-> order_book.symbol,
   quote_asset |-> IF order_book.market_type = "spot" THEN <<"USDC">> ELSE <<"USD">>,
   price_precision |-> order_book.supported_price_decimals,
   quantity_precision |-> order_book.supported_size_decimals,
   min_quantity |-> FloatOf(order_book.min_base_amount),
   min_notional |-> FloatOf(order_book.min_quote_amount),
   status |-> order_book.status,
   taker_fee |-> FloatOf(order_book.taker_fee),
   maker_fee |-> FloatOf(order_book.maker_fee)]

\* _parse_market_details, lines 186-205.
ParseMarketDetails(d) ==
  [symbol |-> GetAttr(d, "symbol", <<"UNKNOWN">>),
   market_id |-> GetAttr(d, "market_id", 0),
   base_asset |-> GetAttr(d, "base_asset", <<>>),
   quote_asset |-> GetAttr(d, "quote_asset", <<>>),
   price_precision |->
     ExtractPrecision(GetAttr(d, "tick_size", <<"0", ".", "0", "1">>)),
   quantity_precision |->
     ExtractPrecision(GetAttr(d, "step_size", <<"0", ".", "0", "0", "1">>)),
   min_quantity |->
     FloatOf(GetAttr(d, "min_order_size", <<"0", ".", "0", "0", "1">>)),
   min_notional |->
     FloatOf(GetAttr(d, "min_notional_value", <<"1", "0", ".", "0">>))]

\* ------------------------------------------------------ the two dicts
\* {} and d[k] = v.
EmptyDict == <<>>
SetItem(d, k, v) == [x \in DOMAIN d \cup {k} |-> IF x = k THEN v ELSE d[x]]

\* ------------------------------------------------------------------ init
\* PrecisionManager.__init__, lines 28-45: both dicts empty, no call in
\* flight.
NoMarket == [market_id |-> -1]
NoListing == [done |-> FALSE, order_books |-> <<>>]
NoFormat == [op |-> "none", value |-> 0, symbol |-> <<>>, text |-> <<>>, num |-> 0]
NoId == -1
CallersInit ==
  /\ ppc = [c \in Callers |-> "idle"]
  /\ psym = [c \in Callers |-> <<>>]
  /\ pmid = [c \in Callers |-> NoId]
  /\ pres = [c \in Callers |-> NoMarket]
  /\ pfail = [c \in Callers |-> "none"]
  /\ pquery = [c \in Callers |-> 0]
  /\ fout = NoFormat
  /\ pfirst = [s \in Symbols |-> NoMarket]
  /\ plisted = NoListing
PmInit ==
  /\ symbol_to_market_id = EmptyDict
  /\ precision_cache = EmptyDict
  /\ CallersInit

\* LighterWebSocketClient.__init__, lines 35-73.
ClientInit ==
  /\ connected = FALSE
  /\ connecting = FALSE
  /\ reconnecting = FALSE
  /\ websocket = None
  /\ reconnect_attempts = 0
  /\ reconnect_delay = initial_reconnect_delay
  /\ subscriptions = [ti \in TypeIdx |-> <<>>]
  /\ hstate = [h \in Handles |-> "fresh"]
  /\ cpc = [c \in Contexts |-> "idle"]
  /\ ch = [c \in Contexts |-> None]
  /\ cit = [c \in Contexts |-> NoIter]
  /\ cpend = [c \in Contexts |-> NoPend]
  /\ upc = "idle"
  /\ uarg = NoPend
  /\ usent = <<>>
  /\ ures = "none"
  /\ tpc = [t \in Tasks |-> "idle"]
  /\ th = [t \in Tasks |-> None]
  /\ tframe = [t \in Tasks |-> NoFrame]
  /\ tcalls = [t \in Tasks |-> <<>>]
  /\ tout = [t \in Tasks |-> <<>>]
  /\ traised = [t \in Tasks |-> {}]
  /\ resubLog = [c \in Contexts |-> <<>>]
  /\ replayQuiet = [c \in Contexts |-> FALSE]
  /\ ulast = "none"
  /\ lost = {}
  /\ slept = [t \in Tasks |-> NoSleep]
  /\ fatal = FALSE
  /\ utried = NoTry

Init == ClientInit /\ PmInit

\* ------------------------------------------------------------------ specs
\* The whole client; of the history, only the kind of the caller's last
\* call is kept.
Next ==
  \/ UserConnect /\ ObsCall("connect")
  \/ UserDisconnect /\ ObsCall("disconnect")
  \/ UserDisconnectDone /\ Unobserved
  \/ \E ti \in CallerTypes, i \in Identifiers, cb \in Callbacks :
       UserSubscribe(ti, i, cb) /\ ObsCall("subscribe")
  \/ \E name \in InputTypes, i \in Identifiers, cb \in Callbacks :
       UserSubscribeUnsupported(name, i, cb) /\ ObsCall("subscribe")
  \/ \E ok \in BOOLEAN : UserSubscribeDone(ok) /\ Unobserved
  \/ \E ti \in CallerTypes, i \in Identifiers :
       UserUnsubscribe(ti, i) /\ ObsCall("unsubscribe")
  \/ \E name \in InputTypes, i \in Identifiers :
       UserUnsubscribeUnsupported(name, i) /\ ObsCall("unsubscribe")
  \/ \E ok \in BOOLEAN : UserUnsubscribeDone(ok) /\ Unobserved
  \/ \E c \in Contexts : OpenOk(c) /\ Unobserved
  \/ \E c \in Contexts : OpenFail(c) /\ Unobserved
  \/ \E c \in Contexts, why \in {"other", "badjson", "timeout", "closed"} :
       HandshakeFail(c, why) /\ Unobserved
  \/ \E c \in Contexts : HandshakeConnected(c) /\ Unobserved
  \/ \E c \in Contexts, ok \in BOOLEAN : ResubResume(c, ok) /\ Unobserved
  \/ \E c \in Contexts : CloseDone(c) /\ Unobserved
  \/ \E t \in Tasks : TaskStart(t) /\ Unobserved
  \/ \E t \in Tasks, f \in Frames : RecvFrame(t, f, {}) /\ Unobserved
  \/ \E t \in Tasks : ProcFrame(t) /\ Unobserved
  \/ \E t \in Tasks : RecvClosed(t) /\ Unobserved
  \/ \E t \in Tasks : SleepDone(t) /\ Unobserved
  \/ \E h \in Handles : TransportClose(h) /\ Unobserved

Spec == Init /\ [][Next]_vars

\* The connection lifecycle alone, observed: the caller never subscribes, so
\* the registry stays empty, and the only frames are pings and pongs.
NextConn ==
  \/ UserConnect /\ ObsConnect
  \/ UserDisconnect /\ ObsDisconnect
  \/ UserDisconnectDone /\ Unobserved
  \/ \E c \in Contexts : OpenOk(c) /\ Unobserved
  \/ \E c \in Contexts : OpenFail(c) /\ ObsFail(c)
  \/ \E c \in Contexts, why \in {"other", "badjson", "timeout", "closed"} :
       HandshakeFail(c, why) /\ ObsFail(c)
  \/ \E c \in Contexts : HandshakeConnected(c) /\ ObsSuccess
  \/ \E c \in Contexts : CloseDone(c) /\ ObsFail(c)
  \/ \E t \in Tasks : TaskStart(t) /\ Unobserved
  \/ \E t \in Tasks, f \in {PingFrame, PongFrame} :
       RecvFrame(t, f, {}) /\ Unobserved
  \/ \E t \in Tasks : ProcFrame(t) /\ Unobserved
  \/ \E t \in Tasks : RecvClosed(t) /\ ObsRecvClosed(t)
  \/ \E t \in Tasks : SleepDone(t) /\ ObsSleepDone(t)
  \/ \E h \in Handles : TransportClose(h) /\ ObsLoss(h)

SpecConn == Init /\ [][NextConn]_vars

\* The receive path: every connection attempt succeeds and the caller never
\* disconnects; it subscribes to identifiers with and without a ':', the
\* venue sends every kind of frame and callbacks may raise.
NextRecv ==
  \/ UserConnect /\ ObsCall("connect")
  \/ \E ti \in RecvCallerTypes, i \in AllIdentifiers, cb \in Callbacks :
       UserSubscribe(ti, i, cb) /\ ObsCall("subscribe")
  \/ \E ok \in BOOLEAN : UserSubscribeDone(ok) /\ Unobserved
  \/ \E ti \in RecvCallerTypes, i \in AllIdentifiers :
       UserUnsubscribe(ti, i) /\ ObsCall("unsubscribe")
  \/ \E ok \in BOOLEAN : UserUnsubscribeDone(ok) /\ Unobserved
  \/ \E c \in Contexts : OpenOk(c) /\ Unobserved
  \/ \E c \in Contexts : HandshakeConnected(c) /\ Unobserved
  \/ \E c \in Contexts, ok \in BOOLEAN : ResubResume(c, ok) /\ Unobserved
  \/ \E t \in Tasks : TaskStart(t) /\ Unobserved
  \/ \E t \in Tasks, f \in AllFrames, r \in SUBSET Callbacks :
       RecvFrame(t, f, r) /\ Unobserved
  \/ \E t \in Tasks : ProcFrame(t) /\ Unobserved
  \/ \E t \in Tasks : RecvClosed(t) /\ Unobserved
  \/ \E t \in Tasks : SleepDone(t) /\ Unobserved
  \/ \E h \in Handles : TransportClose(h) /\ Unobserved

SpecRecv == Init /\ [][NextRecv]_vars

\* The registry over the connection lifecycle: the caller connects,
\* disconnects, subscribes and unsubscribes, connections fail and close, and
\* no frame but the handshake's arrives; an unsubscribe() made while the
\* client is not connected is observed.
NextReplay ==
  \/ UserConnect /\ ObsCall("connect")
  \/ UserDisconnect /\ ObsCall("disconnect")
  \/ UserDisconnectDone /\ Unobserved
  \/ \E ti \in CallerTypes, i \in Identifiers, cb \in Callbacks :
       UserSubscribe(ti, i, cb) /\ ObsCall("subscribe")
  \/ \E ok \in BOOLEAN : UserSubscribeDone(ok) /\ Unobserved
  \/ \E ti \in CallerTypes, i \in Identifiers :
       UserUnsubscribe(ti, i) /\ ObsTry(ti, i)
  \/ \E ok \in BOOLEAN : UserUnsubscribeDone(ok) /\ Unobserved
  \/ \E c \in Contexts : OpenOk(c) /\ Unobserved
  \/ \E c \in Contexts : OpenFail(c) /\ Unobserved
  \/ \E c \in Contexts, why \in {"other", "badjson", "timeout", "closed"} :
       HandshakeFail(c, why) /\ Unobserved
  \/ \E c \in Contexts : HandshakeConnected(c) /\ ObsReplay(c)
  \/ \E c \in Contexts, ok \in BOOLEAN : ResubResume(c, ok) /\ ObsReplay(c)
  \/ \E c \in Contexts : CloseDone(c) /\ Unobserved
  \/ \E t \in Tasks : TaskStart(t) /\ Unobserved
  \/ \E t \in Tasks : RecvClosed(t) /\ Unobserved
  \/ \E t \in Tasks : SleepDone(t) /\ Unobserved
  \/ \E h \in Handles : TransportClose(h) /\ Unobserved

SpecReplay == Init /\ [][NextReplay]_vars

(***************************************************************************)
(* PrecisionManager: the cache.  The callers are coroutines on one event   *)
(* loop; each awaits its call, and a call suspends at every query of the   *)
(* collaborator (order_books(), order_book_details()).                     *)
(***************************************************************************)
\* The index of the first order book of the listing with the symbol, or 0.
FindSymbol(order_books, symbol) ==
  IF \E k \in DOMAIN order_books : order_books[k].symbol = symbol
  THEN CHOOSE k \in DOMAIN order_books :
         /\ order_books[k].symbol = symbol
         /\ \A j \in 1..(k - 1) : order_books[j].symbol # symbol
  ELSE 0

\* The scans in the other order: the base-symbol match first.
FindBookBaseFirst(order_books, symbol) ==
  LET base_symbol == IF \E k \in DOMAIN symbol : symbol[k] = "-"
                     THEN Split(symbol, "-")[1] ELSE symbol
  IN IF FindSymbol(order_books, base_symbol) # 0
     THEN FindSymbol(order_books, base_symbol)
     ELSE FindSymbol(order_books, symbol)

\* The scans of get_market_info, lines 68-83: an exact match, else a match
\* of the part of the symbol before the first '-'.
FindBook(order_books, symbol) ==
  LET base_symbol == IF HasDash(symbol) THEN Split(symbol, "-")[1] ELSE symbol
  IN IF FindSymbol(order_books, symbol) # 0
     THEN FindSymbol(order_books, symbol)
     ELSE FindSymbol(order_books, base_symbol)

\* market_symbol.replace('/', '-').
Dashed(s) == [k \in DOMAIN s |-> IF s[k] = "/" THEN "-" ELSE s[k]]

\* The scan of _symbol_to_market_id_from_api, lines 119-129: the market_id
\* of the first order book whose symbol or market_symbol is the symbol, or
\* NoId.
FindId(order_books, symbol) ==
  LET Match(k) ==
        \/ order_books[k].symbol = symbol
        \/ /\ order_books[k].market_symbol # Absent
           /\ Dashed(order_books[k].market_symbol) = symbol
  IN IF \E k \in DOMAIN order_books : Match(k)
     THEN order_books[CHOOSE k \in DOMAIN order_books :
                        Match(k) /\ \A j \in 1..(k - 1) : ~Match(j)].market_id
     ELSE NoId

\* The call of caller c returns info; how tells how it came to the default
\* ("none" when it did not).
Returns(c, info, how) ==
  /\ ppc' = [ppc EXCEPT ![c] = "done"]
  /\ pres' = [pres EXCEPT ![c] = info]
  /\ pfail' = [pfail EXCEPT ![c] = how]

\* The first Market a successful call has returned for the symbol since the
\* last refresh_cache() began or ended.
Succeeded(symbol, info) ==
  pfirst' = IF pfirst[symbol] = NoMarket
            THEN [pfirst EXCEPT ![symbol] = info] ELSE pfirst

\* An except clause that caches the default Market it returns.
ReturnsDefaultCached(c, how) ==
  /\ Returns(c, GetDefaultPrecision(psym[c]), how)
  /\ symbol_to_market_id' = SetItem(symbol_to_market_id, psym[c], 0)
  /\ precision_cache' = SetItem(precision_cache, 0, GetDefaultPrecision(psym[c]))
  /\ UNCHANGED <<psym, pmid, pquery, pfirst>>

\* Lines 102-105: the call of caller c ends in the except clause.
ReturnsDefault(c, how) ==
  /\ Returns(c, GetDefaultPrecision(psym[c]), how)
  /\ UNCHANGED <<cacheVars, psym, pmid, pquery, pfirst>>

\* Lines 96-100: the call of caller c stores what it has resolved and
\* returns it.
Stores(c, market_id, info) ==
  /\ symbol_to_market_id' = SetItem(symbol_to_market_id, psym[c], market_id)
  /\ precision_cache' = SetItem(precision_cache, market_id, info)
  /\ Returns(c, info, "none")
  /\ Succeeded(psym[c], info)
  /\ UNCHANGED <<psym, pmid, pquery>>

\* get_market_info(symbol), lines 55-62: from the cache, or on to the query
\* of the listing.
GetMarketInfo(c, symbol) ==
  /\ ppc[c] = "idle"
  /\ psym' = [psym EXCEPT ![c] = symbol]
  /\ IF /\ symbol \in DOMAIN symbol_to_market_id
        /\ symbol_to_market_id[symbol] \in DOMAIN precision_cache
     THEN /\ Returns(c, precision_cache[symbol_to_market_id[symbol]], "none")
          /\ Succeeded(symbol, precision_cache[symbol_to_market_id[symbol]])
          /\ pquery' = [pquery EXCEPT ![c] = 0]
     ELSE /\ ppc' = [ppc EXCEPT ![c] = "books"]
          /\ pquery' = [pquery EXCEPT ![c] = 1]
          /\ UNCHANGED <<pres, pfail, pfirst>>
  /\ UNCHANGED <<cacheVars, pmid, fout, plisted, wsVars>>

\* order_books() of line 62 returns or raises; lines 65-87.
BooksReply(c, reply) ==
  /\ ppc[c] = "books"
  /\ LET k == FindBook(reply.order_books, psym[c])
     IN IF ~reply.ok THEN ReturnsDefault(c, "raised")
        ELSE IF k # 0
        THEN IF ParseRaises(reply.order_books[k])
             THEN ReturnsDefault(c, "parse")
             ELSE Stores(c, reply.order_books[k].market_id,
                         ParseMarketInfo(reply.order_books[k]))
        ELSE /\ ppc' = [ppc EXCEPT ![c] = "idbooks"]
             /\ pquery' = [pquery EXCEPT ![c] = @ + 1]
             /\ UNCHANGED <<cacheVars, psym, pmid, pres, pfail, pfirst>>
  /\ plisted' = [done |-> FALSE, order_books |-> reply.order_books]
  /\ UNCHANGED <<fout, wsVars>>

\* order_books() of line 115 returns or raises; lines 88-92 and 119-133.
IdBooksReply(c, reply) ==
  /\ ppc[c] = "idbooks"
  /\ LET market_id == FindId(reply.order_books, psym[c])
     IN IF ~reply.ok THEN ReturnsDefault(c, "raised")
        ELSE IF market_id = NoId THEN ReturnsDefault(c, "nomatch")
        ELSE /\ ppc' = [ppc EXCEPT ![c] = "details"]
             /\ pmid' = [pmid EXCEPT ![c] = market_id]
             /\ pquery' = [pquery EXCEPT ![c] = @ + 1]
             /\ UNCHANGED <<cacheVars, psym, pres, pfail, pfirst>>
  /\ UNCHANGED <<fout, plisted, wsVars>>

\* order_book_details() of line 92 returns or raises; lines 93-100.
DetailsReply(c, reply) ==
  /\ ppc[c] = "details"
  /\ IF ~reply.ok THEN ReturnsDefault(c, "raised")
     ELSE Stores(c, pmid[c], ParseMarketDetails(reply))
  /\ UNCHANGED <<fout, plisted, wsVars>>

\* The caller has its result and is free to make another call.
CallDone(c) ==
  /\ ppc[c] = "done"
  /\ ppc' = [ppc EXCEPT ![c] = "idle"]
  /\ psym' = [psym EXCEPT ![c] = <<>>]
  /\ pmid' = [pmid EXCEPT ![c] = NoId]
  /\ pres' = [pres EXCEPT ![c] = NoMarket]
  /\ pfail' = [pfail EXCEPT ![c] = "none"]
  /\ pquery' = [pquery EXCEPT ![c] = 0]
  /\ UNCHANGED <<cacheVars, fout, cacheHist, wsVars>>

\* The loop of refresh_cache, lines 317-323, on the two dicts d = <<index,
\* cache>>: an order book that does not parse ends it, its symbol already
\* in the index.
RECURSIVE RefreshLoop(_, _)
RefreshLoop(d, order_books) ==
  IF order_books = <<>> THEN d
  ELSE LET order_book == Head(order_books)
           index == SetItem(d[1], order_book.symbol, order_book.market_id)
       IN IF ParseRaises(order_book) THEN <<index, d[2]>>
          ELSE RefreshLoop(<<index, SetItem(d[2], order_book.market_id,
                                            ParseMarketInfo(order_book))>>,
                           Tail(order_books))

\* refresh_cache(), lines 309-315: both dicts cleared, then the query.
RefreshCache(c) ==
  /\ ppc[c] = "idle"
  /\ symbol_to_market_id' = EmptyDict
  /\ precision_cache' = EmptyDict
  /\ ppc' = [ppc EXCEPT ![c] = "refresh"]
  /\ pquery' = [pquery EXCEPT ![c] = 1]
  /\ pfirst' = [s \in Symbols |-> NoMarket]
  /\ plisted' = NoListing
  /\ UNCHANGED <<psym, pmid, pres, pfail, fout, wsVars>>

\* order_books() of line 315 returns or raises; lines 317-328.
RefreshReply(c, reply) ==
  /\ ppc[c] = "refresh"
  /\ ppc' = [ppc EXCEPT ![c] = "done"]
  /\ IF reply.ok
     THEN /\ symbol_to_market_id' =
               RefreshLoop(<<symbol_to_market_id, precision_cache>>,
                           reply.order_books)[1]
          /\ precision_cache' =
               RefreshLoop(<<symbol_to_market_id, precision_cache>>,
                           reply.order_books)[2]
          /\ plisted' = [done |-> TRUE, order_books |-> reply.order_books]
     ELSE UNCHANGED <<cacheVars, plisted>>
  /\ pfirst' = [s \in Symbols |-> NoMarket]
  /\ UNCHANGED <<psym, pmid, pres, pfail, pquery, fout, wsVars>>

NextCache ==
  \/ \E c \in Callers, symbol \in Symbols : GetMarketInfo(c, symbol)
  \/ \E c \in Callers, reply \in BooksReplies : BooksReply(c, reply)
  \/ \E c \in Callers, reply \in BooksReplies : IdBooksReply(c, reply)
  \/ \E c \in Callers : \E reply \in DetailsReplies(pmid[c]) : DetailsReply(c, reply)
  \/ \E c \in Callers : CallDone(c)
  \/ \E c \in Callers : RefreshCache(c)
  \/ \E c \in Callers, reply \in BooksReplies : RefreshReply(c, reply)

SpecCache == Init /\ [][NextCache]_vars

(***************************************************************************)
(* PrecisionManager: the formatting operations, on the dicts as a          *)
(* refresh_cache() leaves them.  The operations do not suspend.  A float   *)
(* is taken to be the decimal it is written as: the error of its binary    *)
(* representation is not modelled.                                         *)
(***************************************************************************)
\* The dicts <<index, cache>> after a refresh_cache() on the empty dicts
\* that fetched nothing, or one of the listings.
FmtCaches ==
  {RefreshLoop(<<EmptyDict, EmptyDict>>, l) : l \in Listings \cup {<<>>}}
FmtSymbols == Symbols \cup {<<"BTC", "-", "USDT">>}
Values == (-MaxBelow)..MaxValue
TickStrings == UNION {[1..n -> {"0", "1", "."}] : n \in 1..MaxTickLen}

\* Lines 257-260, 273-276 and 295-298: the Market the operations use.
LookupMarket(symbol) ==
  LET market_id == IF symbol \in DOMAIN symbol_to_market_id
                   THEN symbol_to_market_id[symbol] ELSE 0
  IN IF market_id \in DOMAIN precision_cache
     THEN precision_cache[market_id]
     ELSE GetDefaultPrecision(symbol)

\* format_price, lines 262-264.
FormatPriceText(price, symbol) ==
  StripFormatted(FormatFixed(price, LookupMarket(symbol).price_precision))

\* A format_quantity that does not raise the quantity to the minimum.
FormatQuantityUnfloored(quantity, symbol) ==
  StripFormatted(FormatFixed(quantity, LookupMarket(symbol).quantity_precision))

\* format_quantity, lines 278-286.
FormatQuantityText(quantity, symbol) ==
  LET min_quantity == LookupMarket(symbol).min_quantity
      q == IF quantity < min_quantity THEN min_quantity ELSE quantity
  IN StripFormatted(FormatFixed(q, LookupMarket(symbol).quantity_precision))

\* An adjustment that cuts the digits off instead of rounding.
AdjustedDown(price, symbol) ==
  LET factor == 10 ^ LookupMarket(symbol).price_precision
  IN (((price * factor) \div Unit) * Unit) \div factor

\* adjust_to_tick_size, lines 300-305, in units.
Adjusted(price, symbol) ==
  LET factor == 10 ^ LookupMarket(symbol).price_precision
  IN (RoundHalfEven(price * factor, Unit) * Unit) \div factor

Formatted(op, value, symbol, text, num) ==
  /\ fout' = [op |-> op, value |-> value, symbol |-> symbol,
              text |-> text, num |-> num]
  /\ UNCHANGED <<cacheVars, callVars, cacheHist, wsVars>>

\* Each operation is called on the dicts as they are, once.
FormatPrice(price, symbol) ==
  /\ fout = NoFormat
  /\ Formatted("format_price", price, symbol, FormatPriceText(price, symbol), 0)

FormatQuantity(quantity, symbol) ==
  /\ fout = NoFormat
  /\ Formatted("format_quantity", quantity, symbol,
               FormatQuantityText(quantity, symbol), 0)

AdjustToTickSize(price, symbol) ==
  /\ fout = NoFormat
  /\ Formatted("adjust", price, symbol, <<>>, Adjusted(price, symbol))

\* adjust_to_tick_size on the value the last adjust_to_tick_size returned.
AdjustAgain ==
  /\ fout.op = "adjust"
  /\ Formatted("readjust", fout.num, fout.symbol, <<>>,
               Adjusted(fout.num, fout.symbol))

\* A call of _extract_precision.
ExtractPrecisionCall(tick_size) ==
  /\ fout = NoFormat
  /\ Formatted("extract", 0, <<>>, tick_size, ExtractPrecision(tick_size))

InitFmt ==
  /\ ClientInit
  /\ CallersInit
  /\ \E d \in FmtCaches :
       /\ symbol_to_market_id = d[1]
       /\ precision_cache = d[2]

NextFmt ==
  \/ /\ fout = NoFormat
     /\ \E price \in Values, symbol \in FmtSymbols : FormatPrice(price, symbol)
  \/ /\ fout = NoFormat
     /\ \E quantity \in Values, symbol \in FmtSymbols :
          FormatQuantity(quantity, symbol)
  \/ /\ fout = NoFormat
     /\ \E price \in Values, symbol \in FmtSymbols :
          AdjustToTickSize(price, symbol)
  \/ AdjustAgain
  \/ /\ fout = NoFormat
     /\ \E tick_size \in TickStrings : ExtractPrecisionCall(tick_size)

SpecFmt == InitFmt /\ [][NextFmt]_vars

\* ---------------------------------------------------------------- claims
\* C1: when the transport is lost and every connect() after it fails, the
\* routine the loss started sleeps 1, 2, 4, 8 and 16 seconds before its
\* attempts 1 to 5 (its n-th sleep lasts 2^(n-1) seconds, and there is no
\* 6th), and it stops only after its 5th attempt has failed.
C1_BackoffSchedule ==
  [][\A t \in Tasks :
       /\ slept'[t].n > 0 =>
            /\ slept'[t].n <= max_reconnect_attempts
            /\ slept'[t].d = 2 ^ (slept'[t].n - 1)
       /\ (slept[t].n > 0 /\ tpc'[t] = "idle" /\ ~connected') =>
            slept[t].n = max_reconnect_attempts]_vars

\* C2: after a disconnect() invoked while a routine was in its backoff sleep
\* has returned, and until the caller calls connect(), no routine leaves its
\* sleep to call connect() and the client is neither connected nor
\* connecting.
C2_DisconnectCancelsRoutine ==
  [][(ulast = "disc_backoff" /\ upc = "idle" /\ ulast' = ulast) =>
       /\ \A t \in Tasks : ~SleepDone(t)
       /\ ~connected' /\ ~connecting']_vars

\* C3: after a disconnect() invoked while connected, and until the caller
\* calls connect(), a receive loop that finds the connection closed by the
\* client does not start the reconnection routine, no task opens a
\* transport, and the client is neither connected nor connecting.
C3_UserDisconnectNoReconnect ==
  [][(ulast = "disc_connected" /\ ulast' = ulast) =>
       /\ \A t \in Tasks :
            (tpc[t] = "recv" /\ th[t] \notin lost) => tpc'[t] # "sleep"
       /\ \A t \in Tasks : cpc'[t] = "open" => cpc[t] = "open"
       /\ ~connected' /\ ~connecting']_vars

\* C4: when a connect() that replayed the registry returns with
\* the client connected, or returns without having had anything to replay,
\* every channel of the registry has received exactly one subscribe command
\* from the replay, made with its first callback, and no other channel has
\* received one.
C4_ReplayEveryConnect ==
  [][\A c \in Contexts :
       /\ (cpc[c] = "resub" /\ cpc'[c] = "idle" /\ connected') =>
            \A ti \in TypeIdx, i \in Identifiers :
              LET sent == {k \in DOMAIN resubLog[c] :
                             resubLog[c][k][1] = ti /\ resubLog[c][k][2] = i}
              IN /\ Cardinality(sent) = IF Has(subscriptions'[ti], i) THEN 1 ELSE 0
                 /\ \A k \in sent :
                      resubLog[c][k][3] = Head(CallbacksOf(subscriptions', ti, i))
       /\ (cpc[c] = "handshake" /\ cpc'[c] = "idle" /\ connected') =>
            \A ti \in TypeIdx : subscriptions[ti] = <<>>]_vars

\* The undisturbed case of C4: a replay that runs undisturbed (it begins on
\* the transport its connect() opened, and until its end no other coroutine
\* and no closure changes the connection or the registry) ends with connect() returning
\* success, the client connected, and exactly one subscribe command sent for
\* every channel of the registry, made with the channel's first callback, and
\* none for any other channel; a connect() that succeeds on its own transport
\* without a replay had an empty registry.
QuietReplayOncePerChannel ==
  [][\A c \in Contexts :
       /\ (cpc[c] = "resub" /\ replayQuiet[c] /\ cpc'[c] # "resub") =>
            /\ cpc'[c] = "idle"
            /\ connected'
            /\ \A ti \in TypeIdx, i \in Identifiers :
                 LET sent == {k \in DOMAIN resubLog[c] :
                                resubLog[c][k][1] = ti /\ resubLog[c][k][2] = i}
                 IN /\ Cardinality(sent) = IF Has(subscriptions'[ti], i) THEN 1 ELSE 0
                    /\ \A k \in sent :
                         resubLog[c][k][3] = Head(CallbacksOf(subscriptions', ti, i))
       /\ (cpc[c] = "handshake" /\ websocket = ch[c] /\ cpc'[c] = "idle"
             /\ connected') =>
            \A ti \in TypeIdx : subscriptions[ti] = <<>>]_vars

\* The undisturbed case happens: a reconnection routine's replay,
\* undisturbed so far, has sent the
\* subscribe commands of two channels, the first of which has two different
\* callbacks.
QuietReplayRuns ==
  \E t \in Tasks :
    /\ cpc[t] = "resub"
    /\ replayQuiet[t]
    /\ Len(resubLog[t]) = 2
    /\ Distinct(CallbacksOf(subscriptions, resubLog[t][1][1], resubLog[t][1][2])) = 2

\* C5: a frame is dispatched to all the callbacks of its channel, and after
\* a subscribe of a reconnection routine's replay on a channel with several
\* callbacks, the channel's list is the first-registered callback alone.
C5_OnlyFirstSurvives ==
  [][\A t \in Tasks :
       /\ (tpc[t] = "recv" /\ tpc'[t] = "proc" /\ tframe'[t].kind = "update") =>
            tcalls'[t] = CallbacksOf(subscriptions, tframe'[t].ti, tframe'[t].id)
       /\ (/\ ResubResume(t, TRUE)
           /\ Distinct(CallbacksOf(subscriptions, cpend[t][1], cpend[t][2])) > 1) =>
            CallbacksOf(subscriptions', cpend[t][1], cpend[t][2])
              = <<Head(CallbacksOf(subscriptions, cpend[t][1], cpend[t][2]))>>]_vars

\* C6: no step takes a callback off the list of a channel or reorders it,
\* but the end of an unsubscribe() of that channel: not disconnect(), not a
\* closure, not a failed connect(), not the reconnection routine.
C6_SubscriptionsPersist ==
  [][\A ti \in TypeIdx, i \in Identifiers :
       LET old == CallbacksOf(subscriptions, ti, i)
           new == CallbacksOf(subscriptions', ti, i)
       IN \/ Len(old) <= Len(new) /\ SubSeq(new, 1, Len(old)) = old
          \/ upc = "unsubscribe" /\ uarg = <<ti, i, 0>> /\ upc' = "idle"]_vars

\* The transport was lost, a connect() of the routine has failed, the routine
\* sleeps before its next attempt, and a channel still has its two callbacks.
C6_Witness ==
  /\ ~connected
  /\ reconnect_attempts >= 2
  /\ \E t \in Tasks : tpc[t] = "sleep"
  /\ \E ti \in TypeIdx, i \in Identifiers :
       Distinct(CallbacksOf(subscriptions, ti, i)) = 2

\* C7: the client holds a transport handle exactly when it is connected.
C7_HandleIffConnected == (websocket # None) <=> connected

\* C8: from the moment a routine has run out of attempts until the caller's
\* next connect(), with no call of the caller in flight, the client is not
\* connected, not connecting and not reconnecting and no task opens a
\* transport; the caller's next connect() is then accepted (it goes on to
\* open a transport).
C8_NoRetryAfterExhaustion ==
  [][/\ (fatal /\ fatal' /\ upc = "idle") =>
          /\ ~connected' /\ ~connecting' /\ ~reconnecting'
          /\ \A t \in Tasks : cpc'[t] = "open" => cpc[t] = "open"
     /\ (fatal /\ ~fatal' /\ ~connected /\ ~connecting) => cpc'[0] = "open"]_vars

\* C9: the attempt counter never exceeds 5, the delay stays between 1 and
\* 30, and a routine that ends leaves the client connected or the attempts
\* exhausted.
C9_RoutineEnds ==
  [][/\ reconnect_attempts' <= max_reconnect_attempts
     /\ reconnect_delay' >= initial_reconnect_delay
     /\ reconnect_delay' <= max_reconnect_delay
     /\ \A t \in Tasks :
          (tpc[t] \in {"sleep", "connect"} /\ tpc'[t] = "idle") =>
            connected' \/ reconnect_attempts' = max_reconnect_attempts]_vars

\* C10: when a connect() whose open or handshake failed returns, the
\* transport it opened is closed, the client holds no handle and is neither
\* connected nor connecting.
C10_FailedConnectDisconnected ==
  [][\A c \in Contexts :
       (cpc[c] \in {"open", "closing"} /\ cpc'[c] = "idle") =>
         /\ ~connected' /\ ~connecting'
         /\ websocket' = None
         /\ ch[c] # None => hstate'[ch[c]] # "open"]_vars

\* C11: a connect() made while the client is connected or connecting is over
\* at once: it opens no transport, starts no receive task, awaits no send
\* and changes nothing of the client, and it returns True exactly when the
\* client is connected.  Made by the caller, it leaves the counters and the
\* tasks alone and the caller has its result; made by a reconnection routine,
\* the routine ends on True and counts a failed attempt on False.
C11_ConnectNoop ==
  [][/\ (UserConnect /\ (connected \/ connecting)) =>
          /\ UNCHANGED <<clientVars, hstate, ctxVars, taskVars, resubLog>>
          /\ upc' = "idle"
          /\ ures' = BoolStr(connected)
     /\ \A t \in Tasks :
          (SleepDone(t) /\ (connected \/ connecting)) =>
            /\ UNCHANGED <<connected, connecting, websocket, subscriptions,
                           hstate, ctxVars, th, tframe, tcalls, tout, traised, resubLog>>
            /\ \A u \in Tasks : tpc'[u] = "start" => tpc[u] = "start"
            /\ IF connected
               THEN /\ tpc'[t] = "idle"
                    /\ reconnect_attempts' = reconnect_attempts
                    /\ reconnect_delay' = reconnect_delay
               ELSE /\ reconnect_delay' = NextDelay(reconnect_delay)
                    /\ \/ tpc'[t] = "sleep" /\ reconnect_attempts' = reconnect_attempts + 1
                       \/ tpc'[t] = "idle" /\ reconnect_attempts = max_reconnect_attempts]_vars

\* The caller's last call was a connect() that found a connect() of a
\* reconnection routine in flight, and it has returned False.
C11_Witness ==
  /\ ulast = "connect_noop"
  /\ upc = "idle"
  /\ ures = "false"
  /\ connecting
  /\ \E t \in Tasks : cpc[t] \in {"open", "handshake"}

\* C12: a connect() that succeeds leaves the attempt counter at 0 and the
\* delay at 1, and a reconnection routine that starts finds them so: its
\* first sleep lasts 1 second and its first attempt is attempt 1 of 5.
C12_FreshBudget ==
  [][/\ \A c \in Contexts :
          (cpc[c] \in {"handshake", "resub"} /\ cpc'[c] = "idle" /\ connected') =>
            /\ reconnect_attempts' = 0
            /\ reconnect_delay' = initial_reconnect_delay
     /\ \A t \in Tasks :
          (tpc[t] = "recv" /\ tpc'[t] = "sleep") =>
            /\ reconnect_attempts' = 1
            /\ reconnect_delay' = initial_reconnect_delay]_vars

\* C13: a subscribe() with an unsupported channel type raises whatever the
\* connection state is, awaits no send and changes neither the registry nor
\* anything else of the client.
C13_UnsupportedRaises ==
  [][\A name \in InputTypes, i \in Identifiers, cb \in Callbacks :
       UserSubscribeUnsupported(name, i, cb) =>
         /\ ures' = "raised_subscribe"
         /\ upc' = "idle"
         /\ usent' = <<>>
         /\ UNCHANGED <<clientVars, hstate, ctxVars, taskVars, resubLog>>]_vars

\* A subscribe() with an unsupported channel type has raised on a client
\* that is not connected and holds a subscription.
C13_Witness ==
  /\ ures = "raised_subscribe"
  /\ ~connected
  /\ \E ti \in TypeIdx : subscriptions[ti] # <<>>

\* C14: a subscribe() with a supported channel type on a client that is not
\* connected returns False at once: no send is awaited, and neither the
\* registry nor anything else of the client changes.
C14_NotConnectedFalse ==
  [][\A ti \in CallerTypes, i \in Identifiers, cb \in Callbacks :
       (UserSubscribe(ti, i, cb) /\ ~connected) =>
         /\ ures' = "false"
         /\ upc' = "idle"
         /\ usent' = <<>>
         /\ UNCHANGED <<clientVars, hstate, ctxVars, taskVars, resubLog>>]_vars

\* The caller's last call was a subscribe() on a client that has never been
\* connected, and it has returned False.
C14_Witness ==
  /\ ulast = "subscribe"
  /\ upc = "idle"
  /\ ures = "false"
  /\ ~connected
  /\ \A h \in Handles : hstate[h] = "fresh"

\* C15: a subscribe() that goes on to send hands exactly one frame
\* {type: subscribe, channel: <channel_type>/<identifier>} to the transport
\* the client holds, with the registry as it was; when the send is over and
\* the call returns True, the callback is at the end of the channel's list
\* (a list of its own if the channel had none) and no other list has
\* changed; when the send fails, the call returns False and the registry is
\* as it was.
C15_SendThenAppend ==
  [][/\ \A ti \in CallerTypes, i \in Identifiers, cb \in Callbacks :
          UserSubscribe(ti, i, cb) =>
            /\ subscriptions' = subscriptions
            /\ IF upc' = "subscribe"
               THEN usent' = <<[h |-> websocket,
                                msg |-> [type |-> "subscribe",
                                         channel |-> <<ChannelTypes[ti], "/">>
                                                         \o IdentifierNames[i]]]>>
               ELSE ures' = "false" /\ usent' = <<>>
     /\ (upc = "subscribe" /\ upc' = "idle") =>
          /\ Len(usent) = 1
          /\ usent' = <<>>
          /\ IF ures' = "true"
             THEN \A ti \in TypeIdx, i \in Identifiers :
                    CallbacksOf(subscriptions', ti, i) =
                      IF <<ti, i>> = <<uarg[1], uarg[2]>>
                      THEN Append(CallbacksOf(subscriptions, ti, i), uarg[3])
                      ELSE CallbacksOf(subscriptions, ti, i)
             ELSE ures' = "false" /\ subscriptions' = subscriptions]_vars

\* The caller's last call was a subscribe() that returned True and left its
\* callback at the end of a list of two.
C15_Witness ==
  /\ ulast = "subscribe"
  /\ upc = "idle"
  /\ ures = "true"
  /\ \E ti \in TypeIdx, i \in Identifiers :
       CallbacksOf(subscriptions, ti, i) = <<1, 2>>

\* C16, as the code has it: unsubscribe() with an unknown channel type raises
\* and changes nothing.  With a known one it returns False at once, sends
\* nothing and leaves the registry alone when the channel has no entry, when
\* the client is not connected or when there is no open transport to send
\* on; else it hands one unsubscribe frame for the channel to the transport
\* held.  When that send is over and the call returns True the channel's
\* whole list is gone and every other list is as it was; when the send
\* failed the call returns False and the registry is as it was.
C16_UnsubscribeRemovesList ==
  [][/\ \A name \in InputTypes, i \in Identifiers :
          UserUnsubscribeUnsupported(name, i) =>
            /\ ures' = "raised_unsubscribe"
            /\ upc' = "idle"
            /\ usent' = <<>>
            /\ UNCHANGED <<clientVars, hstate, ctxVars, taskVars, resubLog>>
     /\ \A ti \in CallerTypes, i \in Identifiers :
          UserUnsubscribe(ti, i) =>
            /\ subscriptions' = subscriptions
            /\ IF connected /\ CanSend /\ CallbacksOf(subscriptions, ti, i) # <<>>
               THEN /\ upc' = "unsubscribe"
                    /\ usent' = <<[h |-> websocket,
                                   msg |-> [type |-> "unsubscribe",
                                            channel |-> <<ChannelTypes[ti], "/">>
                                                         \o IdentifierNames[i]]]>>
               ELSE /\ upc' = "idle"
                    /\ ures' = "false"
                    /\ usent' = <<>>
     /\ (upc = "unsubscribe" /\ upc' = "idle") =>
          /\ Len(usent) = 1
          /\ usent' = <<>>
          /\ IF ures' = "true"
             THEN \A ti \in TypeIdx, i \in Identifiers :
                    /\ <<ti, i>> = <<uarg[1], uarg[2]>> =>
                         ~Has(subscriptions'[ti], i)
                    /\ <<ti, i>> # <<uarg[1], uarg[2]>> =>
                         /\ Has(subscriptions'[ti], i) = Has(subscriptions[ti], i)
                         /\ CallbacksOf(subscriptions', ti, i) =
                              CallbacksOf(subscriptions, ti, i)
             ELSE ures' = "false" /\ subscriptions' = subscriptions]_vars

\* C16, as the specification words it: whenever the channel has an entry,
\* unsubscribe() sends one unsubscribe frame, and when the send is over the
\* channel's list is gone.
C16_AsWorded ==
  [][/\ \A ti \in CallerTypes, i \in Identifiers :
          (UserUnsubscribe(ti, i) /\ Has(subscriptions[ti], i)) =>
            /\ upc' = "unsubscribe"
            /\ Len(usent') = 1
     /\ (upc = "unsubscribe" /\ upc' = "idle") =>
          ~Has(subscriptions'[uarg[1]], uarg[2])]_vars

\* The caller's last call was an unsubscribe() that returned True; it left
\* another channel's list of two callbacks in place.
C16_Witness ==
  /\ ulast = "unsubscribe"
  /\ upc = "idle"
  /\ ures = "true"
  /\ \E ti \in TypeIdx, i \in Identifiers :
       CallbacksOf(subscriptions, ti, i) = <<1, 2>>

\* C17: when a receive task takes a subscribed or update frame whose channel
\* is "<channel_type>:<identifier>", its handler invokes exactly the
\* callbacks registered for (channel_type, identifier), with the event tag
\* of the frame's type: all of them, none of another channel, and none when
\* the channel has no callbacks.
C17_DispatchByChannel ==
  [][\A t \in Tasks :
       (/\ tpc[t] = "recv"
        /\ tpc'[t] = "proc"
        /\ tframe'[t].kind \in {"subscribed", "update"}) =>
         /\ tframe'[t].channel = <<ChannelTypes[tframe'[t].ti], ":">>
                                   \o IdentifierNames[tframe'[t].id]
         /\ tcalls'[t] =
              CallbacksOf(subscriptions, tframe'[t].ti, tframe'[t].id)
         /\ EventTag(tframe'[t]) = tframe'[t].kind]_vars

C19_RaiseIsolated ==
  [][\A t \in Tasks :
       /\ (/\ tpc[t] = "recv"
           /\ traised'[t] # {}
           /\ \A k \in DOMAIN IdentifierNames[tframe'[t].id] :
                IdentifierNames[tframe'[t].id][k] # ":") =>
            /\ tcalls'[t] =
                 CallbacksOf(subscriptions, tframe'[t].ti, tframe'[t].id)
            /\ tpc'[t] = "proc"
            /\ UNCHANGED <<clientVars, hstate>>
       /\ (tpc[t] = "proc" /\ traised[t] # {} /\ tpc'[t] # "proc") =>
            /\ tpc'[t] = IF connected /\ websocket # None THEN "recv" ELSE "idle"
            /\ UNCHANGED <<clientVars, hstate>>]_vars

\* The first callback of a list of two raised and the second was invoked
\* all the same.
C19_Witness ==
  \E t \in Tasks :
    /\ tpc[t] = "proc"
    /\ traised[t] = {1}
    /\ tcalls[t] = <<1, 2>>

\* C20: a ping that a receive task takes while the client is connected
\* makes its handler hand exactly one pong to the transport the ping came
\* from, and invokes no callback; a pong makes it send nothing and invoke
\* nothing.
C20_PingPong ==
  [][\A t \in Tasks :
       /\ (/\ tpc[t] = "recv"
           /\ tpc'[t] = "proc"
           /\ tframe'[t].kind = "ping"
           /\ connected) =>
            /\ tout'[t] = <<[h |-> th[t], msg |-> [type |-> "pong"]]>>
            /\ tcalls'[t] = <<>>
       /\ (/\ tpc[t] = "recv"
           /\ tpc'[t] = "proc"
           /\ tframe'[t].kind = "pong") =>
            /\ tout'[t] = <<>>
            /\ tcalls'[t] = <<>>]_vars

\* C21: a frame that is not JSON, or whose type no handler is registered
\* for, invokes no callback and sends nothing; taking it changes neither
\* the flags, the handle, the counters, the registry nor the transports,
\* and when it has been dropped the task goes back to recv() exactly when
\* the client is connected and holds a handle, as after any frame.
C21_DroppedFrame ==
  [][\A t \in Tasks :
       /\ (/\ tpc[t] = "recv"
           /\ tframe'[t].kind \in {"badjson", "unknown"}) =>
            /\ tcalls'[t] = <<>>
            /\ tout'[t] = <<>>
            /\ tpc'[t] = "proc"
            /\ UNCHANGED <<clientVars, hstate>>
       /\ (/\ tpc[t] = "proc"
           /\ tframe[t].kind \in {"badjson", "unknown"}
           /\ tpc'[t] # "proc") =>
            /\ tpc'[t] = IF connected /\ websocket # None THEN "recv" ELSE "idle"
            /\ UNCHANGED <<clientVars, hstate>>]_vars

\* A receive task holds a frame of an unknown type whose channel field
\* names a channel with two callbacks, on a connected client.
C21_Witness ==
  \E t \in Tasks :
    /\ tpc[t] = "proc"
    /\ tframe[t].kind = "unknown"
    /\ connected
    /\ CallbacksOf(subscriptions, 1, 1) = <<1, 2>>


\* C22: when no call is in flight, every symbol of the symbol -> market_id
\* index maps to a market_id that has an entry in the market_id -> Market
\* cache, whatever get_market_info() and refresh_cache() calls have run, a
\* failing collaborator or an order book that does not parse included.
C22_IndexedIsCached ==
  (\A c \in Callers : ppc[c] \in {"idle", "done"}) =>
    \A symbol \in DOMAIN symbol_to_market_id :
      symbol_to_market_id[symbol] \in DOMAIN precision_cache

\* C23: a get_market_info() that finds no exact, base or detail match, or
\* whose collaborator raises, returns the default Market: price_precision 2,
\* quantity_precision 4, min_quantity 0.001, min_notional 10.0, the two
\* precisions taken from the per-symbol table for BTC-USDT, ETH-USDT and
\* SOL-USDT.
C23_DefaultOnFailure ==
  \A c \in Callers :
    (ppc[c] = "done" /\ pfail[c] \in {"raised", "nomatch"}) =>
      /\ pres[c].symbol = psym[c]
      /\ pres[c].price_precision =
           (IF psym[c] = <<"SOL", "-", "USDT">> THEN 3 ELSE 2)
      /\ pres[c].quantity_precision =
           (IF psym[c] = <<"BTC", "-", "USDT">> THEN 6
            ELSE IF psym[c] = <<"SOL", "-", "USDT">> THEN 2 ELSE 4)
      /\ pres[c].min_quantity * 1000 = Unit
      /\ pres[c].min_notional = 10 * Unit
C23_Witness ==
  \E c \in Callers :
    /\ ppc[c] = "done"
    /\ pfail[c] = "nomatch"
    /\ psym[c] = <<"SOL", "-", "USDT">>
    /\ pres[c].price_precision = 3
    /\ <<"ETH">> \in DOMAIN symbol_to_market_id

\* C24: once a get_market_info(symbol) has succeeded, every get_market_info
\* of that symbol called later, and before any refresh_cache(), returns at
\* once the Market the first one returned, with no query of the collaborator.
C24_SameCachedMarket ==
  [][\A c \in Callers :
       (/\ ppc[c] = "idle"
        /\ ppc'[c] \notin {"idle", "refresh"}
        /\ pfirst[psym'[c]] # NoMarket) =>
         /\ ppc'[c] = "done"
         /\ pquery'[c] = 0
         /\ pres'[c] = pfirst[psym'[c]]]_vars

\* C25: when a refresh_cache() completes with a fetched listing (here one
\* whose order books all parse; C22 has the others), both dicts hold exactly
\* the listed markets: every listed symbol is in the index with its
\* market_id, every listed market_id is in the cache with the Market parsed
\* from its order book, and nothing else is left, whatever get_market_info()
\* calls ran meanwhile.
C25_ExactlyListed ==
  [][\A c \in Callers :
       (/\ ppc[c] = "refresh"
        /\ ppc'[c] = "done"
        /\ plisted'.done
        /\ \A k \in DOMAIN plisted'.order_books :
             ~ParseRaises(plisted'.order_books[k])) =>
         LET listed == plisted'.order_books
             ids == {listed[k].market_id : k \in DOMAIN listed}
         IN /\ \A k \in DOMAIN listed :
                 /\ listed[k].symbol \in DOMAIN symbol_to_market_id'
                 /\ symbol_to_market_id'[listed[k].symbol] = listed[k].market_id
                 /\ listed[k].market_id \in DOMAIN precision_cache'
                 /\ precision_cache'[listed[k].market_id] = ParseMarketInfo(listed[k])
            /\ DOMAIN precision_cache' = ids
            /\ \A symbol \in DOMAIN symbol_to_market_id' :
                 symbol_to_market_id'[symbol] \in ids]_vars

\* C26: when two callers have called get_market_info() for the same symbol,
\* both have missed the cache and made their own lookup, and both lookups
\* have succeeded with no refresh_cache() since, the symbol is in the index,
\* its market_id is in the cache, and both callers have received the same
\* Market, the one the cache holds.
C26_SameContent ==
  \A c1, c2 \in Callers :
    (/\ c1 # c2
     /\ ppc[c1] = "done" /\ ppc[c2] = "done"
     /\ psym[c1] = psym[c2]
     /\ pfail[c1] = "none" /\ pfail[c2] = "none"
     /\ pquery[c1] >= 1 /\ pquery[c2] >= 1
     /\ pres[c1] # NoMarket /\ pres[c2] # NoMarket
     /\ pfirst[psym[c1]] # NoMarket) =>
      /\ psym[c1] \in DOMAIN symbol_to_market_id
      /\ symbol_to_market_id[psym[c1]] \in DOMAIN precision_cache
      /\ pres[c1] = pres[c2]
      /\ precision_cache[symbol_to_market_id[psym[c1]]] = pres[c1]

\* C30: _extract_precision returns 0 for a string with no decimal point and,
\* for a numeral with one, the number of digits after the point up to its
\* last digit that is not a zero: "0.0100" gives 2, "1" gives 0, "0" gives 0.
C30_ExtractPrecision ==
  fout.op = "extract" =>
    LET s == fout.text
        dots == {k \in DOMAIN s : s[k] = "."}
    IN /\ dots = {} => fout.num = 0
       /\ Cardinality(dots) = 1 =>
            LET dot == CHOOSE k \in dots : TRUE
                kept == {k \in 1..(Len(s) - dot) : s[dot + k] # "0"}
            IN /\ kept = {} => fout.num = 0
               /\ kept # {} => fout.num \in kept /\ \A k \in kept : k <= fout.num
       /\ s = <<"0", ".", "0", "1", "0", "0">> => fout.num = 2
       /\ s = <<"1">> => fout.num = 0
       /\ s = <<"0">> => fout.num = 0
C30_Witness ==
  /\ fout.op = "extract"
  /\ fout.text = <<"0", ".", "0", "1", "0", "0">>
  /\ fout.num = 2

\* C27: for a symbol whose Market is in the cache, the string format_price /
\* format_quantity returns has at most one point; when it has one, between
\* 1 and price_precision / quantity_precision digits follow it and the last
\* is not a zero; and it has no point when the value, rounded to that
\* precision, is integral.
C27_FormatShape ==
  (/\ fout.op \in {"format_price", "format_quantity"}
   /\ fout.symbol \in DOMAIN symbol_to_market_id
   /\ symbol_to_market_id[fout.symbol] \in DOMAIN precision_cache) =>
    LET market == precision_cache[symbol_to_market_id[fout.symbol]]
        precision == IF fout.op = "format_price" THEN market.price_precision
                     ELSE market.quantity_precision
        value == IF fout.op = "format_quantity" /\ fout.value < market.min_quantity
                 THEN market.min_quantity
                 ELSE IF fout.value < 0 THEN -fout.value ELSE fout.value
        s == fout.text
        dots == {k \in DOMAIN s : s[k] = "."}
    IN /\ Cardinality(dots) <= 1
       /\ \A dot \in dots :
            /\ Len(s) - dot \in 1..precision
            /\ s[Len(s)] # "0"
       /\ RoundHalfEven(value * (10 ^ precision), Unit) % (10 ^ precision) = 0
            => dots = {}
C27_Witness ==
  /\ fout.op = "format_price"
  /\ fout.symbol = <<"ETH">>
  /\ <<"ETH">> \in DOMAIN symbol_to_market_id
  /\ symbol_to_market_id[<<"ETH">>] \in DOMAIN precision_cache
  /\ fout.value * 8 = Unit
  /\ fout.text = <<"0", ".", "1", "2">>

\* C28: for a quantity below the min_quantity of the Market the symbol
\* resolves to, format_quantity returns the string it returns for
\* min_quantity itself: the min_quantity rounded to quantity_precision,
\* without trailing zeros.
C28_RaisedToMinimum ==
  (/\ fout.op = "format_quantity"
   /\ fout.value < LookupMarket(fout.symbol).min_quantity) =>
    /\ fout.text = FormatQuantityText(LookupMarket(fout.symbol).min_quantity,
                                      fout.symbol)
    /\ fout.text =
         StripFormatted(FormatFixed(LookupMarket(fout.symbol).min_quantity,
                                    LookupMarket(fout.symbol).quantity_precision))
C28_Witness ==
  /\ fout.op = "format_quantity"
  /\ fout.symbol = <<"ETH">>
  /\ <<"ETH">> \in DOMAIN symbol_to_market_id
  /\ 0 \in DOMAIN precision_cache
  /\ fout.value * 1000 = 2 * Unit
  /\ fout.text = <<"0", ".", "0", "0", "5">>

\* C29: adjust_to_tick_size(p, s) is a multiple of 10^-price_precision(s),
\* no other multiple is nearer to p, and adjust_to_tick_size of that value
\* returns it unchanged.
C29_OnGridIdempotent ==
  LET step == Unit \div (10 ^ LookupMarket(fout.symbol).price_precision)
      moved == IF fout.num < fout.value THEN fout.value - fout.num
               ELSE fout.num - fout.value
  IN /\ fout.op = "adjust" =>
          /\ fout.num % step = 0
          /\ 2 * moved <= step
     /\ fout.op = "readjust" =>
          /\ fout.value % step = 0
          /\ fout.num = fout.value
C29_Witness ==
  /\ fout.op = "readjust"
  /\ fout.symbol = <<"ETH">>
  /\ <<"ETH">> \in DOMAIN symbol_to_market_id
  /\ 0 \in DOMAIN precision_cache
  /\ fout.value * 100 = 13 * Unit
  /\ fout.num = fout.value

\* C33: for a symbol with no entry in the symbol -> market_id index,
\* format_price, format_quantity and adjust_to_tick_size work with the
\* default Market of the symbol (price_precision 2 and quantity_precision 4,
\* or those of the table for BTC-USDT, ETH-USDT and SOL-USDT; min_quantity
\* 0.001), whatever the cache holds, a market with market_id 0 included.
C33_UnindexedUsesDefault ==
  (/\ fout.op \in {"format_price", "format_quantity", "adjust"}
   /\ fout.symbol \notin DOMAIN symbol_to_market_id) =>
    LET price_precision ==
          IF fout.symbol = <<"SOL", "-", "USDT">> THEN 3 ELSE 2
        quantity_precision ==
          IF fout.symbol = <<"BTC", "-", "USDT">> THEN 6
          ELSE IF fout.symbol = <<"SOL", "-", "USDT">> THEN 2 ELSE 4
        min_quantity == Unit \div 1000
        quantity == IF fout.value < min_quantity THEN min_quantity ELSE fout.value
    IN /\ fout.op = "format_price" =>
            fout.text = StripFormatted(FormatFixed(fout.value, price_precision))
       /\ fout.op = "format_quantity" =>
            fout.text = StripFormatted(FormatFixed(quantity, quantity_precision))
       /\ fout.op = "adjust" =>
            fout.num = (RoundHalfEven(fout.value * (10 ^ price_precision), Unit)
                          * Unit) \div (10 ^ price_precision)

\* C36: the number written by the string format_quantity(q, s) returns is at
\* least min_quantity(s), the min_quantity of the cached Market of s or,
\* for a symbol with none, the 0.001 of the default Market; so it is never
\* 0, also when min_quantity has more digits than quantity_precision.
C36_AtLeastMinimum ==
  fout.op = "format_quantity" =>
    LET cached == /\ fout.symbol \in DOMAIN symbol_to_market_id
                  /\ symbol_to_market_id[fout.symbol] \in DOMAIN precision_cache
        min_quantity ==
          IF cached
          THEN precision_cache[symbol_to_market_id[fout.symbol]].min_quantity
          ELSE Unit \div 1000
    IN /\ IsFloat(fout.text)
       /\ FloatOf(fout.text) >= min_quantity
       /\ FloatOf(fout.text) > 0

\* C38: on a cache miss, a get_market_info(symbol) whose listing has an
\* order book of that very symbol returns and caches the Market of that
\* order book; failing that, the Market of the order book whose symbol is
\* the part of the symbol before '-'; failing that too, it goes on to the
\* detail lookup.  What it resolves, detail lookup included, is stored under
\* the symbol asked for.  (Order books that parse.)
C38_Precedence ==
  [][\A c \in Callers :
       LET listed == plisted'.order_books
           symbol == psym[c]
           exact == {k \in DOMAIN listed : listed[k].symbol = symbol}
           base == {k \in DOMAIN listed : listed[k].symbol = Split(symbol, "-")[1]}
           Chosen(k) ==
             /\ ppc'[c] = "done"
             /\ pres'[c] = ParseMarketInfo(listed[k])
             /\ symbol \in DOMAIN symbol_to_market_id'
             /\ symbol_to_market_id'[symbol] = listed[k].market_id
             /\ listed[k].market_id \in DOMAIN precision_cache'
             /\ precision_cache'[listed[k].market_id] = pres'[c]
       IN /\ (/\ ppc[c] = "books" /\ ppc'[c] # "books"
               /\ pfail'[c] # "raised"
               /\ \A k \in DOMAIN listed : ~ParseRaises(listed[k])) =>
                /\ exact # {} => \E k \in exact : Chosen(k)
                /\ (exact = {} /\ base # {}) => \E k \in base : Chosen(k)
                /\ (exact = {} /\ base = {}) =>
                     ppc'[c] = "idbooks" /\ UNCHANGED cacheVars
          /\ (ppc[c] = "details" /\ ppc'[c] = "done" /\ pfail'[c] = "none") =>
                /\ symbol \in DOMAIN symbol_to_market_id'
                /\ symbol_to_market_id'[symbol] = pmid[c]
                /\ pmid[c] \in DOMAIN precision_cache'
                /\ precision_cache'[pmid[c]] = pres'[c]]_vars
C38_Witness ==
  \E c \in Callers :
    /\ ppc[c] = "done"
    /\ psym[c] = <<"SOL", "-", "USDT">>
    /\ plisted.order_books = <<EthBook, SolBook, SolUsdtBook>>
    /\ pres[c] = ParseMarketInfo(SolUsdtBook)
    /\ symbol_to_market_id = (<<"SOL", "-", "USDT">> :> 2)
    /\ precision_cache = (2 :> ParseMarketInfo(SolUsdtBook))

\* C39: a get_market_info() that ends in the default Market has written to
\* neither dict, at its end or at any step before it; and a
\* get_market_info() for a symbol the dicts do not resolve queries the
\* collaborator.
C39_DefaultNotCached ==
  [][\A c \in Callers :
       /\ (/\ ppc[c] \in {"books", "idbooks", "details"}
           /\ ppc'[c] # ppc[c]
           /\ ppc'[c] = "done" => pfail'[c] # "none") =>
            UNCHANGED cacheVars
       /\ (/\ ppc[c] = "idle"
           /\ ppc'[c] \notin {"idle", "refresh"}
           /\ ~(/\ psym'[c] \in DOMAIN symbol_to_market_id
                /\ symbol_to_market_id[psym'[c]] \in DOMAIN precision_cache)) =>
            /\ ppc'[c] = "books"
            /\ pquery'[c] = 1
            /\ UNCHANGED cacheVars]_vars
C39_Witness ==
  \E c \in Callers :
    /\ ppc[c] = "done"
    /\ pfail[c] = "raised"
    /\ pquery[c] = 3
    /\ psym[c] = <<"SOL">>
    /\ pres[c].market_id = 0
    /\ symbol_to_market_id = (<<"ETH">> :> 0)
    /\ precision_cache = (0 :> ParseMarketInfo(EthBook))

\* C40: an unsubscribe() with a supported channel type on a client that is
\* not connected returns False at once, sends nothing and leaves the
\* registry as it was; and when the first connect() to get its "connected"
\* frame after such a call returns with the client connected, the channel
\* of that call, if the registry holds it, has received a subscribe command
\* from the replay of that connect().
C40_StillResubscribed ==
  [][/\ \A ti \in CallerTypes, i \in Identifiers :
          (UserUnsubscribe(ti, i) /\ ~connected) =>
            /\ ures' = "false"
            /\ upc' = "idle"
            /\ usent' = <<>>
            /\ subscriptions' = subscriptions
     /\ \A c \in Contexts :
          (/\ cpc[c] \in {"handshake", "resub"}
           /\ cpc'[c] = "idle"
           /\ connected'
           /\ utried # NoTry
           /\ Has(subscriptions'[utried[1]], utried[2])) =>
            \E k \in DOMAIN resubLog[c] :
              /\ resubLog[c][k][1] = utried[1]
              /\ resubLog[c][k][2] = utried[2]]_vars

\* C31: at most one reconnection routine is active at any time (a task is
\* in its routine from the start of the routine to its end: in a backoff
\* sleep or in a connect() the routine called), and while one is active the
\* client is flagged as reconnecting.
C31_OneRoutine ==
  LET active == {t \in Tasks : tpc[t] \in {"sleep", "connect"}}
  IN /\ Cardinality(active) <= 1
     /\ active # {} => reconnecting

\* C32: when a receive task finds the transport of its recv() closed while
\* the client is connected on a newer transport, the client stays connected
\* and the task starts no reconnection routine (which would open another
\* transport).
C32_OldClosureHarmless ==
  [][\A t \in Tasks :
       (/\ RecvClosed(t)
        /\ connected
        /\ websocket # None
        /\ websocket > th[t]
        /\ hstate[websocket] = "open") =>
         /\ connected'
         /\ tpc'[t] # "sleep"]_vars

\* C35: after a disconnect() called while a connect() was in flight, and
\* until connect() is called again (by the caller or by a routine), the
\* client does not become connected: the connect() that was in flight does
\* not succeed; and once the disconnect() has returned and no connect() is
\* in flight any more, the client is neither connected nor connecting, no
\* transport is open and no receive task is about to read or reading.
C35_DisconnectWins ==
  [][(ulast = "disc_connecting" /\ ulast' = ulast) =>
       /\ ~connected'
       /\ (upc' = "idle" /\ \A c \in Contexts : cpc'[c] = "idle") =>
            /\ ~connecting'
            /\ \A h \in Handles : hstate'[h] # "open"
            /\ \A t \in Tasks : tpc'[t] \notin {"start", "recv"}]_vars

\* C34: the handler of a frame invokes a callback as many times as the
\* caller registered it on the channel and no more.  The caller registers a
\* callback at most once on a channel (every subscribe() it makes on a
\* channel brings a new callback), so no callback is invoked twice for one
\* frame, whatever closures and reconnections came before.
C34_OncePerRegistration ==
  \A t \in Tasks, cb \in Callbacks :
    Cardinality({k \in DOMAIN tcalls[t] : tcalls[t][k] = cb}) <= 1

\* C37: a frame of another type than "connected" (a ping, say) that arrives
\* during the handshake wait of a connect() does not end the wait: the
\* connect() goes on waiting for the "connected" frame, the client still
\* connecting on the transport it opened.
C37_OtherFrameSkipped ==
  [][\A c \in Contexts :
       HandshakeFail(c, "other") =>
         /\ cpc'[c] = "handshake"
         /\ connecting'
         /\ hstate'[ch[c]] = "open"]_vars
====
